---- MODULE Spec2Model ----
(***************************************************************************)
(* Model of the pyheaders clang plugin (plugin/src/ConstantsDumper.cpp):   *)
(* the value encoder (operator<< on CharInfo, StructInfo, ValueInfo and    *)
(* RecordInfo) and the AST visitors that write the entries to cout.        *)
(*                                                                         *)
(* Text is a sequence of byte codes (0..255), so that escaping, padding    *)
(* and separators are visible character by character.                      *)
(***************************************************************************)
EXTENDS Integers, Sequences, FiniteSets, TLC

VARIABLES
    charSigned, \* whether plain `char` is signed in this build (implementation-defined)
    arg,        \* encoder run: the operand handed to operator<<
    os,         \* encoder run: the text written to the ostream
    pc,         \* encoder run: "start" before the operator<< call, "done" after,
                \* "terminated" when an exception left it; visitor pass: "idle"
    cout,       \* visitor pass: the lines written to cout, in order
    emitted,    \* visitor pass: the entries written: visited node, name, lines in cout
    visited,    \* visitor pass: the AST nodes visited so far, in traversal order
    found       \* parent query: what GetParent returned

vars == <<charSigned, arg, os, pc, cout, emitted, visited, found>>

(***************************************************************************)
(* Text helpers                                                            *)
(***************************************************************************)

\* A value that stands for "no operand" / nullptr.
Null == [kind |-> "null"]

RECURSIVE Concat(_)
\* Concatenation of a sequence of texts.
Concat(ss) == IF ss = <<>> THEN <<>> ELSE Head(ss) \o Concat(Tail(ss))

RECURSIVE Join(_, _)
\* The texts of ss with sep between each two neighbours.
Join(ss, sep) ==
    IF ss = <<>> THEN <<>>
    ELSE IF Len(ss) = 1 THEN ss[1]
    ELSE ss[1] \o sep \o Join(Tail(ss), sep)

RECURSIVE SeqsUpTo(_, _)
\* All sequences over S of length 0..n.
SeqsUpTo(S, n) ==
    IF n = 0 THEN {<<>>}
    ELSE LET shorter == SeqsUpTo(S, n - 1)
         IN shorter \cup {Append(s, x) : s \in {t \in shorter : Len(t) = n - 1}, x \in S}

\* s contains sub as a contiguous subsequence.
Contains(s, sub) ==
    \E i \in 1..(Len(s) - Len(sub) + 1) : SubSeq(s, i, i + Len(sub) - 1) = sub

RECURSIVE Digits(_, _)
\* The digits of n >= 0 in the given base, most significant first ('0' is 48).
Digits(n, base) ==
    IF n < base THEN <<48 + n>>
    ELSE Digits(n \div base, base) \o <<48 + (n % base)>>

\* Default rendering of an integer by the stream / APSInt::toString(10).
Decimal(n) == IF n < 0 THEN <<45>> \o Digits(0 - n, 10) ELSE Digits(n, 10)

RECURSIVE PadLeft(_, _, _)
\* setw(w) with fill character `fill`: pad on the left up to width w.
PadLeft(s, w, fill) == IF Len(s) >= w THEN s ELSE PadLeft(<<fill>> \o s, w, fill)

RECURSIVE OctValue(_)
\* The number denoted by a text of octal digits.
OctValue(s) ==
    IF s = <<>> THEN 0 ELSE OctValue(SubSeq(s, 1, Len(s) - 1)) * 8 + (s[Len(s)] - 48)

IsOctDigits(s) == \A i \in 1..Len(s) : s[i] \in 48..55

(***************************************************************************)
(* Characters                                                              *)
(***************************************************************************)

char_delim == 39    \* '\''
string_delim == 34  \* '"'
escape_char == 92   \* '\\'

\* static_cast<unsigned char>(c)
UnsignedChar(c) == c % 256

\* static_cast<char>(n): wraps into the range of plain char of this build.
StaticCastChar(n) ==
    IF charSigned THEN ((n + 128) % 256) - 128 ELSE n % 256

\* A test that also accepts the white-space characters '\t' .. '\r'.
isprintOrSpace(c) == (c >= 32 /\ c <= 126) \/ (c >= 9 /\ c <= 13)

\* isprint() in the "C" locale.
isprint(c) == c >= 32 /\ c <= 126

\* The ten low octal digits of the 32-bit two's complement of a negative int:
\* each is 7 minus the corresponding digit of m = -n - 1.
OctComplement(digits) == [i \in 1..Len(digits) |-> 48 + 7 - (digits[i] - 48)]

\* os << oct << n for an int n: in octal the stream prints the value converted
\* to unsigned int (32 bits), so a negative int prints as n + 2^32, which is
\* 037777777777 - m for m = -n - 1 (no borrow: digit-wise complement).
StreamOctInt(n) ==
    IF n >= 0 THEN Digits(n, 8)
    ELSE LET m == (0 - n) - 1
         IN <<48 + 3 - (m \div 1073741824)>>
            \o OctComplement(PadLeft(Digits(m % 1073741824, 8), 10, 48))

\* operator<<(ostream&, const CharInfo&) without the escape_char test
\* (an earlier revision of the function).
CharInfoNoEscapeTest(value, delim) ==
    IF ~isprint(UnsignedChar(value))
    THEN <<escape_char>> \o PadLeft(StreamOctInt(value), 3, 48)
    ELSE IF value = delim
         THEN <<escape_char, value>>
         ELSE <<value>>

\* operator<<(ostream&, const CharInfo&): value is a `char`, +value its promotion to int.
CharInfo(value, delim) ==
    IF ~isprint(UnsignedChar(value))
    THEN <<escape_char>> \o PadLeft(StreamOctInt(value), 3, 48)
    ELSE IF value = delim \/ value = escape_char
         THEN <<escape_char, value>>
         ELSE <<value>>

(***************************************************************************)
(* Types (QualType) and values (APValue) as the encoder sees them          *)
(***************************************************************************)

TxtInt == <<105, 110, 116>>                                             \* "int"
TxtBool == <<98, 111, 111, 108>>                                        \* "bool"
TxtChar == <<99, 104, 97, 114>>                                         \* "char"
TxtSChar == <<115, 105, 103, 110, 101, 100, 32, 99, 104, 97, 114>>      \* "signed char"
TxtUChar == <<117, 110, 115, 105, 103, 110, 101, 100, 32, 99, 104, 97, 114>> \* "unsigned char"
TxtUInt8 == <<117, 105, 110, 116, 56, 95, 116>>                         \* "uint8_t"
TxtWChar == <<119, 99, 104, 97, 114, 95, 116>>                          \* "wchar_t"
TxtChar8 == <<99, 104, 97, 114, 56, 95, 116>>                           \* "char8_t"
TxtChar16 == <<99, 104, 97, 114, 49, 54, 95, 116>>                      \* "char16_t"
TxtChar32 == <<99, 104, 97, 114, 51, 50, 95, 116>>                      \* "char32_t"
TxtTrue == <<116, 114, 117, 101>>                                       \* "true"
TxtFalse == <<102, 97, 108, 115, 101>>                                  \* "false"
TxtNonLiteral == <<60, 110, 111, 110, 45, 108, 105, 116, 101, 114, 97, 108, 62>> \* "<non-literal>"
TxtComma == <<44>>                                                      \* ","
TxtLParen == <<40>>                                                     \* "("
TxtRParen == <<41>>                                                     \* ")"
TxtBrackets == <<91, 93>>                                               \* "[]"

\* A fundamental type: cls is "int", "bool", "char" (char, signed char, unsigned
\* char) or "wide" (wchar_t, char8_t, char16_t, char32_t); canonical and spelled
\* are what getCanonicalType().getAsString() and getAsString() return.
BuiltinType(cls, canonical, spelled) ==
    [kind |-> "builtin", cls |-> cls, canonical |-> canonical, spelled |-> spelled]

IntType == BuiltinType("int", TxtInt, TxtInt)
BoolType == BuiltinType("bool", TxtBool, TxtBool)
CharType == BuiltinType("char", TxtChar, TxtChar)
SCharType == BuiltinType("char", TxtSChar, TxtSChar)
UCharType == BuiltinType("char", TxtUChar, TxtUChar)
UInt8Type == BuiltinType("char", TxtUChar, TxtUInt8)
WCharType == BuiltinType("wide", TxtWChar, TxtWChar)
Char8Type == BuiltinType("wide", TxtChar8, TxtChar8)
Char16Type == BuiltinType("wide", TxtChar16, TxtChar16)
Char32Type == BuiltinType("wide", TxtChar32, TxtChar32)

NonLiteralType == [kind |-> "nonliteral"]
VoidType == [kind |-> "void"]
ReferenceType(t) == [kind |-> "ref", elem |-> t]
PointerType(t) == [kind |-> "pointer", elem |-> t]
ArrayType(t) == [kind |-> "array", elem |-> t]
RecordType(decl) == [kind |-> "record", decl |-> decl]

isReferenceType(t) == t.kind = "ref"
isFundamentalType(t) == t.kind = "builtin"
isAnyCharacterType(t) == t.kind = "builtin" /\ t.cls \in {"char", "wide"}
isCharTypeWideToo(t) == t.kind = "builtin" /\ t.cls \in {"char", "wide"}
isCharType(t) == t.kind = "builtin" /\ t.cls = "char"
isPointerType(t) == t.kind = "pointer"
isArrayType(t) == t.kind = "array"
isRecordType(t) == t.kind = "record"
isVoidType(t) == t.kind = "void"

RECURSIVE getBaseElementType(_)
\* Type::getBaseElementTypeUnsafe(): strips every array level.
getBaseElementType(t) == IF t.kind = "array" THEN getBaseElementType(t.elem) ELSE t

\* Type::isLiteralType(): decided on the base element type; scalar, reference
\* and literal class types are literal.
isLiteralType(t) == getBaseElementType(t).kind # "nonliteral"

\* Type::getPointeeOrArrayElementType()
getPointeeOrArrayElementType(t) ==
    IF t.kind = "pointer" THEN t.elem
    ELSE IF t.kind = "array" THEN getBaseElementType(t)
    ELSE t

\* Type::getAsCXXRecordDecl(): nullptr when the type is no record.
getAsCXXRecordDecl(t) == IF t.kind = "record" THEN t.decl ELSE Null

\* APValue of kind Int, Array (initialized elements; `size` is the declared
\* length), Struct and LValue (str is the host compiler's rendering).
IntValue(n) == [k |-> "Int", int |-> n]
ArrayValue(elts, size) == [k |-> "Array", elts |-> elts, size |-> size]
StructValue(bases, fields) == [k |-> "Struct", bases |-> bases, fields |-> fields]
LValue(str) == [k |-> "LValue", str |-> str]

\* APValue::getAsString(ctx, type), the host compiler's rendering: an integer
\* prints in decimal (a bool as true/false); other kinds carry their rendering.
getAsString(value, type) ==
    IF value.k = "Int"
    THEN IF type.kind = "builtin" /\ type.cls = "bool"
         THEN (IF value.int # 0 THEN TxtTrue ELSE TxtFalse)
         ELSE Decimal(value.int)
    ELSE IF value.k = "LValue" THEN value.str
    ELSE <<>>

(***************************************************************************)
(* HasAnyFields, StructInfo, ValueInfo, RecordInfo                         *)
(***************************************************************************)

RECURSIVE HasAnyFields(_)
\* HasAnyFields(decl): the record or one of its bases, transitively, has a field.
HasAnyFields(decl) ==
    IF decl = Null THEN FALSE
    ELSE IF decl.fields # <<>> THEN TRUE
    ELSE \E i \in 1..Len(decl.bases) : HasAnyFields(getAsCXXRecordDecl(decl.bases[i]))

BaseHasAnyFields(base) == HasAnyFields(getAsCXXRecordDecl(base))

\* none_of(next(base_iter), base_end, BaseHasAnyFields) for base_iter at index i.
NoLaterBaseHasFields(bases, i) ==
    \A j \in (i + 1)..Len(bases) : ~BaseHasAnyFields(bases[j])

\* The lookahead without none_of: only the position decides.
LastBaseByPositionOnly(bases, i, base_count) == i = base_count

\* last_base_with_fields for the i-th of base_count bases (1-based).
LastBaseWithFields(bases, i, base_count) ==
    i = base_count \/ NoLaterBaseHasFields(bases, i)

\* std::string::find / rfind of one character: the 1-based position, 0 for npos.
find(str, c) ==
    IF \E i \in 1..Len(str) : str[i] = c
    THEN CHOOSE i \in 1..Len(str) : str[i] = c /\ \A j \in 1..(i - 1) : str[j] # c
    ELSE 0

rfind(str, c) ==
    IF \E i \in 1..Len(str) : str[i] = c
    THEN CHOOSE i \in 1..Len(str) : str[i] = c /\ \A j \in (i + 1)..Len(str) : str[j] # c
    ELSE 0

\* The field separator test with `last` forgotten.
FieldCommaIgnoringLast(last, i, field_count) == i < field_count

\* `!last || i < field_count - 1` for the i-th field (1-based): a comma follows.
FieldNeedsComma(last, i, field_count) == ~last \/ i < field_count

\* What a stream insertion leaves when std::out_of_range is thrown inside it:
\* the mark stands in the text at the point of the throw. It is no byte.
out_of_range == 256

\* The insertion threw.
Throws(text) == \E i \in 1..Len(text) : text[i] = out_of_range

\* What reached the stream: everything, or what was written before the throw.
Written(text) ==
    IF Throws(text) THEN SubSeq(text, 1, find(text, out_of_range) - 1) ELSE text

\* str.substr(content_begin, content_end - content_begin): std::out_of_range
\* when content_begin is npos (greater than str.size()).
Substr(str, content_begin, content_end) ==
    IF content_begin = 0 THEN <<out_of_range>>
    ELSE SubSeq(str, content_begin, content_end - 1)

\* The typedef test without the comparison: every spelling passes.
AnySpelling(type) == TRUE

\* `type.getCanonicalType().getAsString() == type.getAsString()`: the type is
\* spelled as its canonical type, so it is no typedef.
SpelledCanonically(type) == type.canonical = type.spelled

\* The element separator test without the test: a comma after every element.
ElementCommaAlways(i, array_size) == TRUE

\* `i < array_size - 1` for the i-th element (1-based): a comma follows.
ElementNeedsComma(i, array_size) == i < array_size

RECURSIVE ValueInfo(_, _)
RECURSIVE StructInfo(_, _, _)
RECURSIVE StructInfoBases(_, _, _, _)
RECURSIVE StructInfoFields(_, _, _, _)

\* The base loop of operator<<(ostream&, const StructInfo&), from base i on.
StructInfoBases(value, record_decl, last, i) ==
    LET base_count == Len(value.bases)
        field_count == Len(value.fields)
    IN IF i > base_count \/ i > Len(record_decl.bases) THEN <<>>
       ELSE StructInfo(value.bases[i], record_decl.bases[i],
                       LastBaseWithFields(record_decl.bases, i, base_count)
                           /\ field_count = 0 /\ last)
            \o StructInfoBases(value, record_decl, last, i + 1)

\* The field loop of operator<<(ostream&, const StructInfo&), from field i on.
StructInfoFields(value, record_decl, last, i) ==
    LET field_count == Len(value.fields)
    IN IF i > field_count \/ i > Len(record_decl.fields) THEN <<>>
       ELSE ValueInfo(value.fields[i], record_decl.fields[i].type)
            \o (IF FieldNeedsComma(last, i, field_count) THEN TxtComma ELSE <<>>)
            \o StructInfoFields(value, record_decl, last, i + 1)

\* A record's bases and fields as a group of their own, between parentheses.
StructInfoAsGroup(value, type, last) ==
    TxtLParen
    \o StructInfoBases(value, getAsCXXRecordDecl(type), last, 1)
    \o StructInfoFields(value, getAsCXXRecordDecl(type), last, 1)
    \o TxtRParen

\* operator<<(ostream&, const StructInfo&)
StructInfo(value, type, last) ==
    LET record_decl == getAsCXXRecordDecl(type)
    IN StructInfoBases(value, record_decl, last, 1)
       \o StructInfoFields(value, record_decl, last, 1)

\* The narrow-character array loop: every initialized element through CharInfo.
CharArrayText(value) ==
    Concat([i \in 1..Len(value.elts) |->
               CharInfo(StaticCastChar(value.elts[i].int), string_delim)])

\* operator<<(ostream&, const ValueInfo&)
ValueInfo(value, type) ==
    IF ~isLiteralType(type) THEN TxtNonLiteral
    ELSE IF isReferenceType(type) THEN ValueInfo(value, type.elem)
    ELSE IF isFundamentalType(type) /\ isAnyCharacterType(type) /\ isCharType(type)
            /\ SpelledCanonically(type)
    THEN <<char_delim>> \o CharInfo(StaticCastChar(value.int), char_delim) \o <<char_delim>>
    ELSE IF isFundamentalType(type) /\ isAnyCharacterType(type) /\ ~isCharType(type)
    THEN type.canonical \o TxtLParen \o getAsString(value, type) \o TxtRParen
    ELSE IF ~isFundamentalType(type)
            /\ (isPointerType(type) \/ (isArrayType(type) /\ value.k # "Array"))
            /\ isAnyCharacterType(getPointeeOrArrayElementType(type))
    THEN LET str == getAsString(value, type)
             content_begin == find(str, string_delim)
             content_end == rfind(str, string_delim) + 1
         IN Substr(str, content_begin, content_end)
    ELSE IF ~isFundamentalType(type) /\ isArrayType(type)
    THEN LET element_type == type.elem
             array_size == Len(value.elts)
         IN IF isCharType(element_type) /\ SpelledCanonically(element_type)
            THEN <<string_delim>> \o CharArrayText(value) \o <<string_delim>>
            ELSE (IF ~isCharType(element_type) /\ isAnyCharacterType(element_type)
                  THEN element_type.canonical \o TxtBrackets ELSE <<>>)
                 \o TxtLParen
                 \o Concat([i \in 1..array_size |->
                        ValueInfo(value.elts[i], element_type)
                        \o (IF ElementNeedsComma(i, array_size) THEN TxtComma ELSE <<>>)])
                 \o TxtRParen
    ELSE IF ~isFundamentalType(type) /\ isRecordType(type) /\ value.k = "Struct"
    THEN (IF type.decl.name # <<>> THEN type.decl.qname ELSE <<>>)
         \o TxtLParen \o StructInfo(value, type, TRUE) \o TxtRParen
    ELSE getAsString(value, type)

\* The shape encoder's lookahead without none_of: only the position decides.
RecordLastBaseByPositionOnly(bases, i) == i = Len(bases)

\* last_base_with_fields of operator<<(ostream&, const RecordInfo&) for base i.
RecordLastBaseWithFields(bases, i) ==
    i = Len(bases) \/ NoLaterBaseHasFields(bases, i)

RECURSIVE RecordInfo(_, _)
RECURSIVE RecordInfoBases(_, _, _)

\* The base loop of operator<<(ostream&, const RecordInfo&), from base i on.
RecordInfoBases(decl, last, i) ==
    LET empty == decl.fields = <<>>
    IN IF i > Len(decl.bases) THEN <<>>
       ELSE (IF isRecordType(decl.bases[i])
             THEN RecordInfo(getAsCXXRecordDecl(decl.bases[i]),
                             RecordLastBaseWithFields(decl.bases, i) /\ empty /\ last)
             ELSE <<>>)
            \o RecordInfoBases(decl, last, i + 1)

\* operator<<(ostream&, const RecordInfo&)
RecordInfo(decl, last) ==
    RecordInfoBases(decl, last, 1)
    \o Concat([i \in 1..Len(decl.fields) |->
           decl.fields[i].name
           \o (IF i < Len(decl.fields) \/ ~last THEN TxtComma ELSE <<>>)])

(***************************************************************************)
(* AST nodes and the parent queries of the visitor                         *)
(***************************************************************************)

OUTPUT_EQ == <<58, 61>>                                                  \* ":="
TxtEnum == <<101, 110, 117, 109, 32>>                                    \* "enum "
TxtOpenBrace == <<32, 123>>                                              \* " {"
TxtCloseBrace == <<125>>                                                 \* "}"
TxtLiteralSuffix == <<58, 58, 40, 108, 105, 116, 101, 114, 97, 108, 41>> \* "::(literal)"
TxtLiteralTag == <<35, 108, 105, 116, 101, 114, 97, 108, 32>>            \* "#literal "
TxtCommaSpace == <<44, 32>>                                              \* ", "
TxtEllipsis == <<46, 46, 46>>                                            \* "..."
TxtConst == <<32, 99, 111, 110, 115, 116>>                               \* " const"
TxtVolatile == <<32, 118, 111, 108, 97, 116, 105, 108, 101>>             \* " volatile"
TxtLRef == <<32, 38>>                                                    \* " &"
TxtRRef == <<32, 38, 38>>                                                \* " &&"
TxtConstCharPtr == <<99, 111, 110, 115, 116, 32, 99, 104, 97, 114, 32, 42>> \* "const char *"
TxtScope == <<58, 58>>                                                   \* "::"

\* Declarations and statements that enclose a literal. `cls` is the node class:
\* "TranslationUnit", "Namespace", "CXXRecord", "Function", "Var" or "Stmt"
\* (any statement, expression or unnamed declaration).
TranslationUnitDecl == [cls |-> "TranslationUnit"]
StmtNode == [cls |-> "Stmt"]
NamespaceDecl(qname) == [cls |-> "Namespace", qname |-> qname]
RecordScope(qname) == [cls |-> "CXXRecord", qname |-> qname]

\* A VarDecl as the visitor reads it: a local variable, a function parameter
\* or a variable at namespace or class scope (storage), its type, whether it has
\* an initializer, is constexpr, is usable in constant expressions, and its
\* evaluated value (Null when getEvaluatedValue() is nullptr).
VarDeclNode(qname, storage, type, hasInit, isConstexpr, usable, evaluatedValue) ==
    [kind |-> "VarDecl", cls |-> "Var", qname |-> qname,
     isLocalVarDeclOrParm |-> storage \in {"local", "parm"},
     isLocalVarDecl |-> storage = "local",
     type |-> type, hasInit |-> hasInit, isConstexpr |-> isConstexpr,
     isUsableInConstantExpressions |-> usable,
     evaluatedValue |-> evaluatedValue]

\* The host compiler's rendering of a pointer to the first character of "hi",
\* &"hi"[0], and of a null pointer, nullptr.
TxtPtrToHi == <<38, 34, 104, 105, 34, 91, 48, 93>>
TxtNullptr == <<110, 117, 108, 108, 112, 116, 114>>

\* `constexpr const char *qname = "..."`, or the parameter `const char *qname = "..."`.
VarDecl(qname, storage) ==
    VarDeclNode(qname, storage, PointerType(CharType), TRUE, storage # "parm",
                storage # "parm", LValue(TxtPtrToHi))

\* A FunctionDecl; `method` says it is a CXXMethodDecl, `instance` that it is a
\* non-static member; ref is "none", "lvalue" or "rvalue".
FunctionDecl(name, qname, params, variadic, method, instance, const, volatile, ref) ==
    [cls |-> "Function", name |-> name, qname |-> qname, params |-> params,
     variadic |-> variadic, method |-> method, instance |-> instance,
     const |-> const, volatile |-> volatile, ref |-> ref]

\* dynamic_parent.get<Parent>() != nullptr: the node is of class Parent or derived.
IsA(decl, Parent) ==
    IF Parent = "NamedDecl" THEN decl.cls \in {"Namespace", "CXXRecord", "Function", "Var"}
    ELSE IF Parent = "FunctionDecl" THEN decl.cls = "Function"
    ELSE IF Parent = "VarDecl" THEN decl.cls = "Var"
    ELSE FALSE

\* The predicates handed to GetParent: "any" accepts every node (the default
\* lambda), "not_parameter" is the lambda of the "assigned to a variable" test.
Pred(pred, decl) ==
    IF pred = "not_parameter" THEN ~decl.isLocalVarDeclOrParm \/ decl.isLocalVarDecl
    ELSE TRUE

RECURSIVE GetParentFrom(_, _, _, _)
\* The loop of GetParent over context.getParents(node), from parent i on. A node
\* of the parent map is [decl |-> declaration, parents |-> its parent nodes].
GetParentFrom(parents, i, Parent, pred) ==
    IF i > Len(parents) THEN Null
    ELSE IF IsA(parents[i].decl, Parent) /\ Pred(pred, parents[i].decl) THEN parents[i].decl
    ELSE LET matching_ancestor == GetParentFrom(parents[i].parents, 1, Parent, pred)
         IN IF matching_ancestor # Null THEN matching_ancestor
            ELSE GetParentFrom(parents, i + 1, Parent, pred)

\* GetParent<Parent>(context, node, pred)
GetParent(node, Parent, pred) == GetParentFrom(node.parents, 1, Parent, pred)

\* HasParent<Parent>(context, node, pred)
HasParent(node, Parent, pred) == GetParent(node, Parent, pred) # Null

(***************************************************************************)
(* The visitors                                                            *)
(***************************************************************************)

\* One enumerator line with "=" as separator (an earlier revision).
EnumeratorLineOldSeparator(enum_constant_decl, integer_type) ==
    enum_constant_decl.qname \o <<61>>
    \o ValueInfo(IntValue(enum_constant_decl.initVal), integer_type) \o TxtComma

\* One enumerator line of VisitEnumDecl.
EnumeratorLine(enum_constant_decl, integer_type) ==
    enum_constant_decl.qname \o OUTPUT_EQ
    \o ValueInfo(IntValue(enum_constant_decl.initVal), integer_type) \o TxtComma

\* The lines of an enum without the closing line.
EnumBlockUnclosed(decl) ==
    <<TxtEnum \o decl.qname \o TxtOpenBrace>>
    \o [i \in 1..Len(decl.enumerators) |-> EnumeratorLine(decl.enumerators[i], decl.integerType)]

\* The lines VisitEnumDecl writes for a non-templated enum.
EnumBlock(decl) ==
    <<TxtEnum \o decl.qname \o TxtOpenBrace>>
    \o [i \in 1..Len(decl.enumerators) |-> EnumeratorLine(decl.enumerators[i], decl.integerType)]
    \o <<TxtCloseBrace>>

\* An entry of the stream: the index of the visited node that produced it, its
\* name, its first line in cout and its number of lines.
Entry(name, lines) ==
    [node |-> Len(visited) + 1, name |-> name, first |-> Len(cout) + 1, count |-> Len(lines)]

\* VisitEnumDecl without the exclusion of template definitions (an earlier revision).
VisitEnumDeclTemplatedToo(decl) ==
    /\ decl.kind = "EnumDecl"
    /\ visited' = Append(visited, decl)
    /\ cout' = cout \o EnumBlock(decl)
    /\ emitted' = Append(emitted, Entry(decl.qname, EnumBlock(decl)))
    /\ UNCHANGED <<found, charSigned, arg, os, pc>>

\* ConstantsDumperVisitor::VisitEnumDecl
VisitEnumDecl(decl) ==
    /\ decl.kind = "EnumDecl"
    /\ visited' = Append(visited, decl)
    /\ IF decl.isTemplated
       THEN UNCHANGED <<cout, emitted>>
       ELSE /\ cout' = cout \o EnumBlock(decl)
            /\ emitted' = Append(emitted, Entry(decl.qname, EnumBlock(decl)))
    /\ UNCHANGED <<found, charSigned, arg, os, pc>>

\* The parameter list with "," instead of ", " between the parameter types.
ParamListTightCommas(owning_func) ==
    Join(owning_func.params, TxtComma)
    \o (IF owning_func.variadic
        THEN (IF owning_func.params # <<>> THEN TxtCommaSpace ELSE <<>>) \o TxtEllipsis
        ELSE <<>>)

\* The text between the parentheses of the function signature: the parameter
\* types joined by ", ", then "..." for a variadic function.
ParamList(owning_func) ==
    Join(owning_func.params, TxtCommaSpace)
    \o (IF owning_func.variadic
        THEN (IF owning_func.params # <<>> THEN TxtCommaSpace ELSE <<>>) \o TxtEllipsis
        ELSE <<>>)

\* The qualifiers written after ")" for a non-static member function.
MethodQualifiers(owning_func) ==
    IF owning_func.instance /\ owning_func.method
    THEN (IF owning_func.const THEN TxtConst ELSE <<>>)
         \o (IF owning_func.volatile THEN TxtVolatile ELSE <<>>)
         \o (IF owning_func.ref = "lvalue" THEN TxtLRef
             ELSE IF owning_func.ref = "rvalue" THEN TxtRRef ELSE <<>>)
    ELSE <<>>

\* The name with the enclosing named declaration consulted before the function.
LiteralNameDeclFirst(literal) ==
    LET owning_func == GetParent(literal, "FunctionDecl", "any")
        owning_decl == GetParent(literal, "NamedDecl", "any")
    IN (IF owning_decl # Null /\ owning_decl.cls # "Function"
        THEN owning_decl.qname
        ELSE IF owning_func # Null
        THEN owning_func.qname \o TxtLParen \o ParamList(owning_func) \o TxtRParen
             \o MethodQualifiers(owning_func)
        ELSE <<>>)
       \o TxtLiteralSuffix

\* The name VisitStringLiteral generates: func(params)[quals]::(literal),
\* scope::(literal) or ::(literal).
LiteralName(literal) ==
    LET owning_func == GetParent(literal, "FunctionDecl", "any")
        owning_decl == GetParent(literal, "NamedDecl", "any")
    IN (IF owning_func # Null
        THEN owning_func.qname \o TxtLParen \o ParamList(owning_func) \o TxtRParen
             \o MethodQualifiers(owning_func)
        ELSE IF owning_decl # Null THEN owning_decl.qname
        ELSE <<>>)
       \o TxtLiteralSuffix

\* The early returns with "assigned to a variable" read as "assigned to a
\* variable that VisitVarDecl reports".
LiteralSkippedForReportedVariablesOnly(literal) ==
    LET owning_func == GetParent(literal, "FunctionDecl", "any")
        var == GetParent(literal, "VarDecl", "not_parameter")
    IN \/ literal.isInSystemHeader
       \/ (literal.isAscii /\ literal.string = literal.presumedFilename)
       \/ (var # Null /\ isLiteralType(var.type) /\ var.hasInit
              /\ (var.isConstexpr \/ var.isUsableInConstantExpressions)
              /\ var.evaluatedValue # Null)
       \/ (owning_func # Null /\ literal.isAscii /\ literal.string = owning_func.name)
       \/ ~literal.evaluates

\* VisitStringLiteral returns before writing: system header, __FILE__, a literal
\* assigned to a variable, __FUNCTION__, or a failed constant evaluation.
LiteralSkipped(literal) ==
    LET owning_func == GetParent(literal, "FunctionDecl", "any")
    IN \/ literal.isInSystemHeader
       \/ (literal.isAscii /\ literal.string = literal.presumedFilename)
       \/ HasParent(literal, "VarDecl", "not_parameter")
       \/ (owning_func # Null /\ literal.isAscii /\ literal.string = owning_func.name)
       \/ ~literal.evaluates

\* cout << ... << endl for one entry: the line reaches cout and the visitor
\* returns; or an insertion throws, what was written stays in cout without its
\* end of line, and the exception leaves the visitor and ends the pass.
WriteLine(name, line) ==
    IF Throws(line)
    THEN /\ cout' = Append(cout, Written(line))
         /\ pc' = "terminated"
         /\ UNCHANGED emitted
    ELSE /\ cout' = Append(cout, line)
         /\ emitted' = Append(emitted, Entry(name, <<line>>))
         /\ UNCHANGED pc

\* ConstantsDumperVisitor::VisitStringLiteral
VisitStringLiteral(literal) ==
    /\ literal.kind = "StringLiteral"
    /\ visited' = Append(visited, literal)
    /\ IF LiteralSkipped(literal)
       THEN UNCHANGED <<cout, emitted, pc>>
       ELSE WriteLine(LiteralName(literal),
                      TxtLiteralTag \o LiteralName(literal) \o OUTPUT_EQ
                      \o ValueInfo(literal.value, literal.type))
    /\ UNCHANGED <<found, charSigned, arg, os>>

\* RecursiveASTVisitor<ConstantsDumperVisitor>::VisitCharacterLiteral: the
\* visitor defines no callback for character literals, the default does nothing.
VisitCharacterLiteral(literal) ==
    /\ literal.kind = "CharacterLiteral"
    /\ visited' = Append(visited, literal)
    /\ UNCHANGED <<found, charSigned, arg, os, pc, cout, emitted>>

\* VisitVarDecl returns before writing: not a literal type, a function
\* parameter, no initializer, not constexpr nor usable in constant expressions,
\* no evaluated value.
VarSkipped(decl) ==
    \/ ~isLiteralType(decl.type)
    \/ (decl.isLocalVarDeclOrParm /\ ~decl.isLocalVarDecl)
    \/ ~decl.hasInit
    \/ (~decl.isConstexpr /\ ~decl.isUsableInConstantExpressions)
    \/ decl.evaluatedValue = Null

\* The line of VisitVarDecl with the literal tag in front, as for literals.
VarLineTagged(decl) ==
    TxtLiteralTag \o decl.qname \o OUTPUT_EQ \o ValueInfo(decl.evaluatedValue, decl.type)

\* The line VisitVarDecl writes.
VarLine(decl) ==
    decl.qname \o OUTPUT_EQ \o ValueInfo(decl.evaluatedValue, decl.type)

\* ConstantsDumperVisitor::VisitVarDecl
VisitVarDecl(decl) ==
    /\ decl.kind = "VarDecl"
    /\ visited' = Append(visited, decl)
    /\ IF VarSkipped(decl)
       THEN UNCHANGED <<cout, emitted, pc>>
       ELSE WriteLine(decl.qname, VarLine(decl))
    /\ UNCHANGED <<found, charSigned, arg, os>>

\* VisitFunctionDecl returns before writing: no body, templated, not constexpr,
\* parameters, void result, or the synthetic call does not evaluate.
FunctionSkipped(decl) ==
    \/ ~decl.hasBody
    \/ decl.isTemplated
    \/ ~decl.isConstexpr
    \/ decl.numParams # 0
    \/ isVoidType(decl.resultType)
    \/ ~decl.evaluates

\* The line VisitFunctionDecl writes.
FunctionLine(decl) ==
    decl.qname \o OUTPUT_EQ \o ValueInfo(decl.value, decl.resultType)

\* ConstantsDumperVisitor::VisitFunctionDecl
VisitFunctionDecl(decl) ==
    /\ decl.kind = "FunctionDecl"
    /\ visited' = Append(visited, decl)
    /\ IF FunctionSkipped(decl)
       THEN UNCHANGED <<cout, emitted, pc>>
       ELSE WriteLine(decl.qname, FunctionLine(decl))
    /\ UNCHANGED <<found, charSigned, arg, os>>

\* VisitCXXRecordDecl returns before writing: anonymous, no definition, a
\* lambda, not a literal type.
RecordSkipped(decl) ==
    \/ decl.name = <<>>
    \/ ~decl.hasDefinition
    \/ decl.isLambda
    \/ ~decl.isLiteral

\* The line VisitCXXRecordDecl writes.
RecordLine(decl) ==
    decl.qname \o <<123>> \o RecordInfo(decl, TRUE) \o <<125>>

\* LiteralTypesDumperVisitor::VisitCXXRecordDecl
VisitCXXRecordDecl(decl) ==
    /\ decl.kind = "CXXRecordDecl"
    /\ visited' = Append(visited, decl)
    /\ IF RecordSkipped(decl)
       THEN UNCHANGED <<cout, emitted, pc>>
       ELSE WriteLine(decl.qname, RecordLine(decl))
    /\ UNCHANGED <<found, charSigned, arg, os>>

(***************************************************************************)
(* Encoder runs: one operator<< call on one operand                        *)
(***************************************************************************)

\* CharInfo operands: every byte, as the char it is in this build, with both delimiters.
CharArgs ==
    {[op |-> "CharInfo", ch |-> StaticCastChar(b), delim |-> d] :
        b \in 0..255, d \in {char_delim, string_delim}}

MaxRecords == 4   \* records (the aggregate and its bases, transitively) per aggregate
MaxFields == 2    \* fields declared by one record
MaxLen == 3       \* initialized elements of an array

RECURSIVE TreesOfSize(_)
RECURSIVE ForestsOfSize(_)
\* The inheritance trees of exactly n records: nf own fields and the base list.
TreesOfSize(n) ==
    {[nf |-> f, bases |-> bs] : f \in 0..MaxFields, bs \in ForestsOfSize(n - 1)}

\* The base lists whose trees hold exactly m records together.
ForestsOfSize(m) ==
    IF m = 0 THEN {<<>>}
    ELSE UNION {{<<t>> \o rest : t \in TreesOfSize(k), rest \in ForestsOfSize(m - k)} :
                    k \in 1..m}

Shapes == UNION {TreesOfSize(n) : n \in 1..MaxRecords}

RECURSIVE MkDecl(_, _)
\* The CXXRecordDecl of a shape: record number num is named R<num>, its j-th
\* field f<num*10+j> of type int, its i-th base is record number num*10+i.
MkDecl(shape, num) ==
    [kind |-> "CXXRecord",
     name |-> <<82>> \o Decimal(num),
     qname |-> <<82>> \o Decimal(num),
     bases |-> [i \in 1..Len(shape.bases) |->
                   RecordType(MkDecl(shape.bases[i], num * 10 + i))],
     fields |-> [j \in 1..shape.nf |->
                   [name |-> <<102>> \o Decimal(num * 10 + j), type |-> IntType]]]

RECURSIVE MkValue(_, _)
\* A value of MkDecl(shape, num): the j-th field of record num holds num*10+j.
MkValue(shape, num) ==
    StructValue([i \in 1..Len(shape.bases) |-> MkValue(shape.bases[i], num * 10 + i)],
                [j \in 1..shape.nf |-> IntValue(num * 10 + j)])

\* Aggregate operands of ValueInfo.
StructArgs ==
    {[op |-> "ValueInfo", value |-> MkValue(s, 1), type |-> RecordType(MkDecl(s, 1))] :
        s \in Shapes}

\* Bytes used as array elements: NUL, 'a', '"', '\\', 0x7F and 0xC8.
ElementBytes == {0, 97, 34, 92, 127, 200}

\* Narrow-character array operands of ValueInfo: char, signed char, unsigned
\* char and the typedef uint8_t as element type.
CharArrayArgs ==
    {[op |-> "ValueInfo",
      value |-> ArrayValue([i \in 1..Len(bs) |-> IntValue(bs[i])], Len(bs)),
      type |-> ArrayType(t)] :
        bs \in SeqsUpTo(ElementBytes, MaxLen),
        t \in {CharType, SCharType, UCharType, UInt8Type}}

\* Record operands of RecordInfo, called with last = true as the visitor does.
RecordArgs ==
    {[op |-> "RecordInfo", decl |-> MkDecl(s, 1), last |-> TRUE] : s \in Shapes}

InitEncode ==
    /\ charSigned \in BOOLEAN
    /\ \/ arg \in CharArgs
       \/ arg \in StructArgs
       \/ arg \in CharArrayArgs
       \/ arg \in RecordArgs
    /\ os = <<>>
    /\ pc = "start"
    /\ cout = <<>>
    /\ emitted = <<>>
    /\ visited = <<>>
    /\ found = Null

\* os << CharInfo(value, delim)
PutCharInfo ==
    /\ pc = "start"
    /\ arg.op = "CharInfo"
    /\ os' = os \o CharInfo(arg.ch, arg.delim)
    /\ pc' = "done"
    /\ UNCHANGED <<found, charSigned, arg, cout, emitted, visited>>

\* os << ValueInfo(value, type, context): the text reaches the stream, or an
\* insertion throws and what was written before stays in the stream.
PutValueInfo ==
    /\ pc = "start"
    /\ arg.op = "ValueInfo"
    /\ os' = os \o Written(ValueInfo(arg.value, arg.type))
    /\ pc' = IF Throws(ValueInfo(arg.value, arg.type)) THEN "terminated" ELSE "done"
    /\ UNCHANGED <<found, charSigned, arg, cout, emitted, visited>>

\* os << RecordInfo(decl, last)
PutRecordInfo ==
    /\ pc = "start"
    /\ arg.op = "RecordInfo"
    /\ os' = os \o RecordInfo(arg.decl, arg.last)
    /\ pc' = "done"
    /\ UNCHANGED <<found, charSigned, arg, cout, emitted, visited>>

NextEncode == PutCharInfo \/ PutValueInfo \/ PutRecordInfo

SpecEncode == InitEncode /\ [][NextEncode]_vars

\* Bytes of narrow strings: NUL, '"', '\\', ':', '=' and 0xC8.
StringBytes == {0, 34, 92, 58, 61, 200}

\* The host compiler's rendering of a pointer to the string "a:=b": &"a:=b"[0].
TxtPtrToSep == <<38, 34, 97, 58, 61, 98, 34, 91, 48, 93>>

\* Narrow string operands of ValueInfo: arrays of char, signed char and
\* unsigned char, and a pointer to a string literal.
StringArgs ==
    {[op |-> "ValueInfo",
      value |-> ArrayValue([i \in 1..Len(bs) |-> IntValue(bs[i])], Len(bs)),
      type |-> ArrayType(t)] :
        bs \in SeqsUpTo(StringBytes, MaxLen), t \in {CharType, SCharType, UCharType}}
    \cup {[op |-> "ValueInfo", value |-> LValue(TxtPtrToSep), type |-> PointerType(CharType)]}

\* One narrow character or narrow string is encoded.
InitString ==
    /\ charSigned \in BOOLEAN
    /\ arg \in CharArgs \cup StringArgs
    /\ os = <<>>
    /\ pc = "start"
    /\ cout = <<>>
    /\ emitted = <<>>
    /\ visited = <<>>
    /\ found = Null

NextString == PutCharInfo \/ PutValueInfo

SpecString == InitString /\ [][NextString]_vars

\* Values of narrow characters: '\n', '\r', '\'', '(' and 0xC8.
NarrowBytes == {10, 13, 39, 40, 200}

\* Values of wide characters: U+000A and U+03BB.
CodePoints == {10, 955}

\* wchar_t, char8_t, char16_t, char32_t
WideTypes == {WCharType, Char8Type, Char16Type, Char32Type}

\* The host compiler's rendering of a pointer to "a\nb": &"a\nb"[0], the line
\* break spelled as backslash, n.
TxtPtrToLines == <<38, 34, 97, 92, 110, 98, 34, 91, 48, 93>>

\* The host compiler's rendering of the wide string literal L"hi": &L"hi".
TxtWideLiteral == <<38, 76, 34, 104, 105, 34>>

\* String literals of wide characters: the type is an array of wchar_t or
\* char16_t, the value refers to the literal.
WideLiteralOperands ==
    {<<ArrayType(t), LValue(TxtWideLiteral)>> : t \in {WCharType, Char16Type}}

\* struct R2 { int f21; } with its value R2(21).
InnerShape == [nf |-> 1, bases |-> <<>>]
InnerDecl == MkDecl(InnerShape, 2)
InnerValue == MkValue(InnerShape, 2)

\* struct R1 : R3 { R2 f11; int f12[2]; char f13; } with the value
\* R1(31,R2(21),(-1,10),'\012').
OuterDecl ==
    [kind |-> "CXXRecord", name |-> <<82, 49>>, qname |-> <<82, 49>>,
     bases |-> <<RecordType(MkDecl(InnerShape, 3))>>,
     fields |-> <<[name |-> <<102, 49, 49>>, type |-> RecordType(InnerDecl)],
                  [name |-> <<102, 49, 50>>, type |-> ArrayType(IntType)],
                  [name |-> <<102, 49, 51>>, type |-> CharType]>>]

OuterValue ==
    StructValue(<<MkValue(InnerShape, 3)>>,
                <<InnerValue, ArrayValue(<<IntValue(0 - 1), IntValue(10)>>, 2), IntValue(10)>>)

\* struct { int f; } without a name, with the value (10).
UnnamedDecl ==
    [kind |-> "CXXRecord", name |-> <<>>, qname |-> <<>>, bases |-> <<>>,
     fields |-> <<[name |-> <<102>>, type |-> IntType]>>]

UnnamedValue == StructValue(<<>>, <<IntValue(10)>>)

\* The values of each element type, as <<type, value>>.
IntOperands == {<<IntType, IntValue(n)>> : n \in {0 - 1, 10}}
BoolOperands == {<<BoolType, IntValue(n)>> : n \in {0, 1}}
NarrowOperands ==
    {<<t, IntValue(c)>> : t \in {CharType, SCharType, UCharType, UInt8Type}, c \in NarrowBytes}
WideOperands == {<<t, IntValue(c)>> : t \in WideTypes, c \in CodePoints}
PointerOperands ==
    {<<PointerType(CharType), LValue(str)>> : str \in {TxtPtrToHi, TxtPtrToLines, TxtNullptr}}
StructOperands ==
    {<<RecordType(InnerDecl), InnerValue>>, <<RecordType(OuterDecl), OuterValue>>,
     <<RecordType(UnnamedDecl), UnnamedValue>>}
RowOperands ==
    {<<ArrayType(IntType), ArrayValue([i \in 1..n |-> IntValue(10 * i)], 2)>> : n \in 0..2}
NonLiteralOperands == {<<NonLiteralType, Null>>}

ElementOperands ==
    IntOperands \cup BoolOperands \cup NarrowOperands \cup WideOperands
    \cup PointerOperands \cup StructOperands \cup RowOperands \cup NonLiteralOperands

\* The types of ElementOperands.
ElementTypes == {tv[1] : tv \in ElementOperands}

\* Arrays of up to MaxLen initialized elements of one element type, declared
\* with exactly that many elements or with one more.
ArrayOperands ==
    UNION {{<<ArrayType(t), ArrayValue(elts, Len(elts) + rest)>> :
                elts \in SeqsUpTo({tv[2] : tv \in {o \in ElementOperands : o[1] = t}}, MaxLen),
                rest \in {0, 1}} : t \in ElementTypes}

\* References to a value of every element type.
ReferenceOperands == {<<ReferenceType(tv[1]), tv[2]>> : tv \in ElementOperands}

\* ValueInfo operands of every type the encoder distinguishes.
ValueArgs ==
    {[op |-> "ValueInfo", value |-> tv[2], type |-> tv[1]] :
        tv \in ElementOperands \cup ArrayOperands \cup ReferenceOperands
                   \cup WideLiteralOperands}

\* One value of any type is encoded.
InitValue ==
    /\ charSigned \in BOOLEAN
    /\ arg \in ValueArgs
    /\ os = <<>>
    /\ pc = "start"
    /\ cout = <<>>
    /\ emitted = <<>>
    /\ visited = <<>>
    /\ found = Null

NextValue == PutValueInfo

SpecValue == InitValue /\ [][NextValue]_vars

(***************************************************************************)
(* Visitor runs: the traversal of one translation unit                     *)
(***************************************************************************)

MaxNodes == 2        \* AST nodes visited in one pass
MaxParams == 2       \* parameters of a function
MaxEnumerators == 3  \* enumerators of an enum
MaxDepth == 2        \* scopes between a literal outside functions and the translation unit

TxtNs == <<110, 115>>                           \* "ns"
TxtS == <<83>>                                  \* "S"
TxtF == <<102>>                                 \* "f"
TxtM == <<109>>                                 \* "m"
TxtNsF == <<110, 115, 58, 58, 102>>             \* "ns::f"
TxtSM == <<83, 58, 58, 109>>                    \* "S::m"
TxtNsX == <<110, 115, 58, 58, 120>>             \* "ns::x"
TxtP == <<112>>                                 \* "p"
TxtLocal == <<110, 115, 58, 58, 102, 58, 58, 76>>   \* "ns::f::L"
TxtE == <<69>>                                  \* "E"
TxtNsE == <<110, 115, 58, 58, 69>>              \* "ns::E"
TxtOops == <<111, 111, 112, 115>>               \* "oops"
TxtX == <<120>>                                 \* "x"
TxtFile == <<97, 46, 99, 112, 112>>             \* "a.cpp"
TxtAnonymous == <<40, 97, 110, 111, 110, 121, 109, 111, 117, 115, 41>>  \* "(anonymous)"

RECURSIVE Nest(_)
\* The parent list of a node whose ancestors are chain[1] (nearest), chain[2], ...
Nest(chain) ==
    IF chain = <<>> THEN <<>>
    ELSE <<[decl |-> Head(chain), parents |-> Nest(Tail(chain))]>>

\* A string literal "string" of type const char[N] below the given ancestors; the
\* host compiler renders its value as &"string".
StringLiteral(string, chain, isInSystemHeader, evaluates) ==
    [kind |-> "StringLiteral", string |-> string, isAscii |-> TRUE,
     isInSystemHeader |-> isInSystemHeader, presumedFilename |-> TxtFile,
     evaluates |-> evaluates,
     value |-> LValue(<<38, 34>> \o string \o <<34>>),
     type |-> ArrayType(CharType),
     parents |-> Nest(chain)]

\* An enum whose i-th enumerator is named <qname>::A, ::B, ... and has the i-th value.
EnumDecl(qname, integerType, values, isTemplated) ==
    [kind |-> "EnumDecl", qname |-> qname, integerType |-> integerType,
     isTemplated |-> isTemplated,
     enumerators |-> [i \in 1..Len(values) |->
                        [qname |-> qname \o TxtScope \o <<64 + i>>, initVal |-> values[i]]]]

\* void ns::f(int)
FuncF == FunctionDecl(TxtF, TxtNsF, <<TxtInt>>, FALSE, FALSE, FALSE, FALSE, FALSE, "none")

\* The literals of a pass: in ns::f(int), at namespace scope, at global scope,
\* initializing ns::x; in a system header; not evaluable; __FILE__.
PassLiterals ==
    {StringLiteral(str, chain, FALSE, TRUE) :
        str \in {TxtOops, TxtX, TxtF},
        chain \in {<<StmtNode, FuncF, NamespaceDecl(TxtNs), TranslationUnitDecl>>,
                   <<StmtNode, NamespaceDecl(TxtNs), TranslationUnitDecl>>,
                   <<VarDecl(TxtNsX, "global"), NamespaceDecl(TxtNs), TranslationUnitDecl>>}}
    \cup {StringLiteral(TxtOops, <<StmtNode, TranslationUnitDecl>>, sys, ev) :
            sys \in BOOLEAN, ev \in BOOLEAN}
    \cup {StringLiteral(TxtFile, <<StmtNode, TranslationUnitDecl>>, FALSE, TRUE)}

PassEnums ==
    {EnumDecl(TxtNsE, IntType, <<0, 1>>, FALSE),
     EnumDecl(TxtE, IntType, <<>>, FALSE),
     EnumDecl(TxtE, IntType, <<5>>, TRUE)}

\* The signatures of the functions that enclose a literal: free functions
\* ns::f, static and non-static member functions S::m.
Functions ==
    {FunctionDecl(TxtF, TxtNsF, ps, v, FALSE, FALSE, FALSE, FALSE, "none") :
        ps \in SeqsUpTo({TxtInt, TxtConstCharPtr}, MaxParams), v \in BOOLEAN}
    \cup {FunctionDecl(TxtM, TxtSM, ps, v, TRUE, FALSE, FALSE, FALSE, "none") :
        ps \in SeqsUpTo({TxtInt, TxtConstCharPtr}, MaxParams), v \in BOOLEAN}
    \cup {FunctionDecl(TxtM, TxtSM, ps, v, TRUE, TRUE, c, vo, r) :
        ps \in SeqsUpTo({TxtInt, TxtConstCharPtr}, MaxParams), v \in BOOLEAN,
        c \in BOOLEAN, vo \in BOOLEAN, r \in {"none", "lvalue", "rvalue"}}

\* What stands between a literal and its function: nothing, a statement, a
\* parameter (default argument) or a local class.
InnerScopes == {<<>>, <<StmtNode>>, <<VarDecl(TxtP, "parm")>>, <<RecordScope(TxtLocal)>>}

\* What encloses a function: a namespace or a class, then the translation unit.
OuterScopes ==
    {<<TranslationUnitDecl>>,
     <<NamespaceDecl(TxtNs), TranslationUnitDecl>>,
     <<RecordScope(TxtS), TranslationUnitDecl>>}

\* The scopes of a literal outside every function.
NonFunctionScopes ==
    {StmtNode, NamespaceDecl(TxtNs), RecordScope(TxtS), VarDecl(TxtP, "parm")}

\* Literals "oops" and "m" in every function signature, and outside functions.
SignatureLiterals ==
    {StringLiteral(str, inner \o <<f>> \o outer, FALSE, TRUE) :
        str \in {TxtOops, TxtM}, inner \in InnerScopes, f \in Functions, outer \in OuterScopes}
    \cup {StringLiteral(TxtOops, chain \o <<TranslationUnitDecl>>, FALSE, TRUE) :
            chain \in SeqsUpTo(NonFunctionScopes, MaxDepth)}

\* A string literal with an encoding prefix (u8"string"): isAscii() is false.
Utf8StringLiteral(string, chain) ==
    [kind |-> "StringLiteral", string |-> string, isAscii |-> FALSE,
     isInSystemHeader |-> FALSE, presumedFilename |-> TxtFile,
     evaluates |-> TRUE,
     value |-> LValue(<<38, 117, 56, 34>> \o string \o <<34>>),
     type |-> ArrayType(CharType),
     parents |-> Nest(chain)]

\* A character literal below the given ancestors.
CharacterLiteral(value, chain, isInSystemHeader) ==
    [kind |-> "CharacterLiteral", value |-> value,
     isInSystemHeader |-> isInSystemHeader, parents |-> Nest(chain)]

\* A FunctionDecl as VisitFunctionDecl reads it; member is "free", "static" or
\* "instance"; value is what the synthetic call evaluates to.
FunctionDeclNode(qname, member, hasBody, isTemplated, isConstexpr, numParams, resultType, evaluates, value) ==
    [kind |-> "FunctionDecl", qname |-> qname, member |-> member,
     hasBody |-> hasBody, isTemplated |-> isTemplated, isConstexpr |-> isConstexpr,
     numParams |-> numParams, resultType |-> resultType,
     evaluates |-> evaluates, value |-> value]

\* A CXXRecordDecl as VisitCXXRecordDecl reads it: the record of a shape,
\* named or anonymous.
CXXRecordDeclNode(shape, named, hasDefinition, isLambda, isLiteral, isTemplated) ==
    [kind |-> "CXXRecordDecl",
     name |-> IF named THEN MkDecl(shape, 1).name ELSE <<>>,
     qname |-> IF named THEN MkDecl(shape, 1).qname ELSE TxtAnonymous,
     bases |-> MkDecl(shape, 1).bases, fields |-> MkDecl(shape, 1).fields,
     hasDefinition |-> hasDefinition, isLambda |-> isLambda,
     isLiteral |-> isLiteral, isTemplated |-> isTemplated]

\* `const char *x = "..."` in ns::f(int): a local variable that is no constant.
LocalNonConstant ==
    VarDeclNode(TxtX, "local", PointerType(CharType), TRUE, FALSE, FALSE, Null)

\* Types with a value of each: int, char, uint8_t, a string pointer, a null
\* character pointer, an array holding both, a record with one field.
TypedValues ==
    {<<IntType, IntValue(100)>>,
     <<CharType, IntValue(97)>>,
     <<UInt8Type, IntValue(200)>>,
     <<PointerType(CharType), LValue(TxtPtrToHi)>>,
     <<PointerType(CharType), LValue(TxtNullptr)>>,
     <<ArrayType(PointerType(CharType)),
       ArrayValue(<<LValue(TxtPtrToHi), LValue(TxtNullptr)>>, 2)>>,
     <<RecordType(MkDecl([nf |-> 1, bases |-> <<>>], 1)),
       MkValue([nf |-> 1, bases |-> <<>>], 1)>>,
     <<NonLiteralType, Null>>}

\* The variables of a translation unit: an evaluated value or a use in constant
\* expressions needs an initializer, a parameter is not constexpr.
VarDecls ==
    {v \in {VarDeclNode(q, st, tv[1], hi, ce, us, IF ev THEN tv[2] ELSE Null) :
                q \in {TxtX, TxtNsX}, st \in {"global", "local", "parm"},
                tv \in TypedValues, hi \in BOOLEAN, ce \in BOOLEAN, us \in BOOLEAN,
                ev \in BOOLEAN} :
        /\ (v.evaluatedValue # Null \/ v.isUsableInConstantExpressions \/ v.isConstexpr)
               => v.hasInit
        /\ (v.isLocalVarDeclOrParm /\ ~v.isLocalVarDecl) => ~v.isConstexpr}

\* constexpr int x = 100; constexpr const char *ns::x = nullptr; a parameter;
\* a variable without initializer.
PassVars ==
    {VarDeclNode(TxtX, "global", IntType, TRUE, TRUE, TRUE, IntValue(100)),
     VarDeclNode(TxtNsX, "global", PointerType(CharType), TRUE, TRUE, TRUE, LValue(TxtNullptr)),
     VarDeclNode(TxtP, "parm", IntType, FALSE, FALSE, FALSE, Null),
     VarDeclNode(TxtNsX, "global", IntType, FALSE, FALSE, FALSE, Null)}

\* Result types with a value of each.
ResultValues ==
    {<<IntType, IntValue(7)>>,
     <<PointerType(CharType), LValue(TxtPtrToHi)>>,
     <<PointerType(CharType), LValue(TxtNullptr)>>,
     <<VoidType, Null>>}

\* The functions of a translation unit: free functions ns::f, static and
\* non-static member functions S::m. The synthetic call evaluates only for a
\* constexpr function with a body, no parameters and a result.
FunctionDecls ==
    {f \in {FunctionDeclNode(IF m = "free" THEN TxtNsF ELSE TxtSM, m, hb, t, ce, n,
                             rv[1], ev, rv[2]) :
                m \in {"free", "static", "instance"}, hb \in BOOLEAN, t \in BOOLEAN,
                ce \in BOOLEAN, n \in 0..MaxParams, rv \in ResultValues, ev \in BOOLEAN} :
        f.evaluates => (f.hasBody /\ f.isConstexpr /\ ~f.isTemplated /\ f.numParams = 0
                        /\ ~isVoidType(f.resultType))}

\* constexpr int ns::f() { return 7; }; int S::m(int); a function whose call
\* does not evaluate.
PassFunctions ==
    {FunctionDeclNode(TxtNsF, "free", TRUE, FALSE, TRUE, 0, IntType, TRUE, IntValue(7)),
     FunctionDeclNode(TxtSM, "instance", TRUE, FALSE, FALSE, 1, IntType, FALSE, IntValue(7)),
     FunctionDeclNode(TxtSM, "static", TRUE, FALSE, TRUE, 0, IntType, FALSE, IntValue(7))}

\* 'x' in ns::f(int), at namespace scope, in a system header.
CharacterLiterals ==
    {CharacterLiteral(120, <<StmtNode, FuncF, NamespaceDecl(TxtNs), TranslationUnitDecl>>, FALSE),
     CharacterLiteral(120, <<StmtNode, NamespaceDecl(TxtNs), TranslationUnitDecl>>, FALSE),
     CharacterLiteral(120, <<VarDecl(TxtNsX, "global"), NamespaceDecl(TxtNs), TranslationUnitDecl>>, FALSE),
     CharacterLiteral(120, <<StmtNode, TranslationUnitDecl>>, TRUE)}

\* Literals below a variable of every kind, and prefixed literals that spell
\* the function's or the file's name.
VariableLiterals ==
    {StringLiteral(TxtOops, <<v, StmtNode, FuncF, NamespaceDecl(TxtNs), TranslationUnitDecl>>,
                   FALSE, TRUE) : v \in {w \in VarDecls : w.type = PointerType(CharType)}}
    \cup {StringLiteral(TxtOops, <<StmtNode, LocalNonConstant, StmtNode, FuncF, TranslationUnitDecl>>,
                        FALSE, TRUE)}
    \cup {Utf8StringLiteral(str, <<StmtNode, FuncF, TranslationUnitDecl>>) :
            str \in {TxtF, TxtFile, TxtOops}}

\* The records of a translation unit: a lambda is an anonymous class with a
\* definition, a record without definition has no members.
CXXRecordDecls ==
    {r \in {CXXRecordDeclNode(shape, named, hd, lam, lit, t) :
                shape \in TreesOfSize(1) \cup TreesOfSize(2), named \in BOOLEAN,
                hd \in BOOLEAN, lam \in BOOLEAN, lit \in BOOLEAN, t \in BOOLEAN} :
        /\ r.isLambda => (r.name = <<>> /\ r.hasDefinition)
        /\ ~r.hasDefinition => (r.fields = <<>> /\ r.bases = <<>> /\ ~r.isLiteral)}

\* struct R1 with int members of the given names; <<>> is the name of an
\* unnamed bit-field or of an anonymous struct / union member.
RecordWithFields(names) ==
    [kind |-> "CXXRecordDecl", name |-> <<82, 49>>, qname |-> <<82, 49>>,
     bases |-> <<>>, fields |-> [i \in 1..Len(names) |-> [name |-> names[i], type |-> IntType]],
     hasDefinition |-> TRUE, isLambda |-> FALSE, isLiteral |-> TRUE, isTemplated |-> FALSE]

\* Records with up to MaxFields + 1 members named a, b or unnamed, e.g.
\* struct R1 { int a; int : 3; int b; }.
UnnamedMemberRecords ==
    {RecordWithFields(names) :
        names \in {ns \in SeqsUpTo({<<97>>, <<98>>, <<>>}, MaxFields + 1) :
                      \A i, j \in 1..Len(ns) : (i # j /\ ns[i] # <<>>) => ns[i] # ns[j]}}

Literals == PassLiterals \cup SignatureLiterals \cup VariableLiterals

Enums ==
    PassEnums
    \cup {EnumDecl(qname, t, values, templated) :
            qname \in {TxtE, TxtNsE}, t \in {IntType, CharType, UInt8Type},
            values \in SeqsUpTo({0 - 1, 0, 65}, MaxEnumerators), templated \in BOOLEAN}

InitVisit ==
    /\ charSigned \in BOOLEAN
    /\ arg = Null
    /\ os = <<>>
    /\ pc = "idle"
    /\ cout = <<>>
    /\ emitted = <<>>
    /\ visited = <<>>
    /\ found = Null

\* A node is visited once, and two declarations of a translation unit have
\* different qualified names.
NotYetVisited(node) ==
    \A i \in 1..Len(visited) :
        /\ visited[i] # node
        /\ (node.kind \in {"EnumDecl", "VarDecl", "FunctionDecl"}
            /\ visited[i].kind \in {"EnumDecl", "VarDecl", "FunctionDecl"})
               => visited[i].qname # node.qname

\* The traversal reaches the next node of the translation unit.
Next ==
    /\ Len(visited) < MaxNodes
    /\ pc = "idle"
    /\ \/ \E decl \in PassEnums : NotYetVisited(decl) /\ VisitEnumDecl(decl)
       \/ \E decl \in PassVars : NotYetVisited(decl) /\ VisitVarDecl(decl)
       \/ \E decl \in PassFunctions : NotYetVisited(decl) /\ VisitFunctionDecl(decl)
       \/ \E literal \in PassLiterals : NotYetVisited(literal) /\ VisitStringLiteral(literal)
       \/ \E literal \in CharacterLiterals :
              NotYetVisited(literal) /\ VisitCharacterLiteral(literal)

Spec == InitVisit /\ [][Next]_vars

\* The traversal of a translation unit that holds one node.
NextVisit ==
    /\ visited = <<>>
    /\ \/ \E decl \in Enums : VisitEnumDecl(decl)
       \/ \E decl \in VarDecls : VisitVarDecl(decl)
       \/ \E decl \in FunctionDecls : VisitFunctionDecl(decl)
       \/ \E literal \in Literals : VisitStringLiteral(literal)
       \/ \E literal \in CharacterLiterals : VisitCharacterLiteral(literal)
       \/ \E decl \in CXXRecordDecls \cup UnnamedMemberRecords : VisitCXXRecordDecl(decl)

SpecVisit == InitVisit /\ [][NextVisit]_vars

(***************************************************************************)
(* Plugin runs: the traversals of one translation unit by the two plugins  *)
(***************************************************************************)

TxtR1K == <<82, 49, 58, 58, 107>>               \* "R1::k"

\* The declarations at the top level of a translation unit: enum ns::E,
\* constexpr int x = 100, constexpr const char *ns::x = nullptr,
\* constexpr int ns::f() { return 7; } and struct R1 { int f11; }.
TopLevelNodes ==
    {EnumDecl(TxtNsE, IntType, <<0, 1>>, FALSE),
     VarDeclNode(TxtX, "global", IntType, TRUE, TRUE, TRUE, IntValue(100)),
     VarDeclNode(TxtNsX, "global", PointerType(CharType), TRUE, TRUE, TRUE, LValue(TxtNullptr)),
     FunctionDeclNode(TxtNsF, "free", TRUE, FALSE, TRUE, 0, IntType, TRUE, IntValue(7)),
     CXXRecordDeclNode([nf |-> 1, bases |-> <<>>], TRUE, TRUE, FALSE, TRUE, FALSE)}

\* A declaration with a node nested inside it: struct R1 with its static member
\* constexpr int R1::k = 100, and ns::f with the literal "oops" in its body.
NestedNodes ==
    {<<CXXRecordDeclNode([nf |-> 1, bases |-> <<>>], TRUE, TRUE, FALSE, TRUE, FALSE),
       VarDeclNode(TxtR1K, "global", IntType, TRUE, TRUE, TRUE, IntValue(100))>>,
     <<FunctionDeclNode(TxtNsF, "free", TRUE, FALSE, TRUE, 0, IntType, TRUE, IntValue(7)),
       StringLiteral(TxtOops, <<StmtNode, FuncF, NamespaceDecl(TxtNs), TranslationUnitDecl>>,
                     FALSE, TRUE)>>}

\* The nodes of ns are all different.
Distinct(ns) == \A i, j \in 1..Len(ns) : i # j => ns[i] # ns[j]

\* The translation units: up to MaxNodes nodes in depth-first order; inside[i]
\* is the position of the declaration that node i is nested in, 0 for none.
Units ==
    {[nodes |-> ns, inside |-> [i \in 1..Len(ns) |-> 0]] :
        ns \in {t \in SeqsUpTo(TopLevelNodes, MaxNodes) : t # <<>> /\ Distinct(t)}}
    \cup {[nodes |-> before \o pair \o after,
           inside |-> [i \in 1..(Len(before) + 2 + Len(after)) |->
                          IF i = Len(before) + 2 THEN Len(before) + 1 ELSE 0]] :
            pair \in NestedNodes,
            before \in {t \in SeqsUpTo(TopLevelNodes, MaxNodes) : Len(t) <= MaxNodes - 2},
            after \in {t \in SeqsUpTo(TopLevelNodes, MaxNodes) : Len(t) <= MaxNodes - 2}}

\* The plugins of one compiler run, in the order their consumers are called:
\* either plugin alone, or both in either order.
PluginLists ==
    {<<"ConstantsDumper">>, <<"TypesDumper">>,
     <<"TypesDumper", "ConstantsDumper">>, <<"ConstantsDumper", "TypesDumper">>}

InitUnit ==
    /\ charSigned \in BOOLEAN
    /\ arg \in {[op |-> "Unit", nodes |-> u.nodes, inside |-> u.inside, plugins |-> ps] :
                   u \in {v \in Units : Len(v.nodes) <= MaxNodes /\ Distinct(v.nodes)},
                   ps \in PluginLists}
    /\ os = <<>>
    /\ pc = "idle"
    /\ cout = <<>>
    /\ emitted = <<>>
    /\ visited = <<>>
    /\ found = Null

\* RecursiveASTVisitor's Visit callback of a node class the visitor defines no
\* callback for: it does nothing.
VisitDefault(node) ==
    /\ visited' = Append(visited, node)
    /\ UNCHANGED <<found, charSigned, arg, os, pc, cout, emitted>>

\* The traversal in the reverse of the depth-first order.
NodeAtBackwards(nodes, step) == nodes[Len(nodes) - (step % Len(nodes))]

\* The node a traversal reaches after `step` visits of the run: each traversal
\* goes through the nodes of the unit in depth-first order, parents first.
NodeAt(nodes, step) == nodes[(step % Len(nodes)) + 1]

\* The plugin whose traversal is under way after `step` visits of the run.
PluginAt(plugins, nodes, step) == plugins[(step \div Len(nodes)) + 1]

\* The callbacks of ConstantsDumperVisitor.
ConstantsDumperVisit(node) ==
    \/ VisitEnumDecl(node)
    \/ VisitVarDecl(node)
    \/ VisitFunctionDecl(node)
    \/ VisitStringLiteral(node)
    \/ (node.kind = "CXXRecordDecl" /\ VisitDefault(node))

\* The callbacks of LiteralTypesDumperVisitor.
LiteralTypesDumperVisit(node) ==
    \/ VisitCXXRecordDecl(node)
    \/ (node.kind # "CXXRecordDecl" /\ VisitDefault(node))

\* One step of visitor.TraverseDecl(context.getTranslationUnitDecl()) in
\* HandleTranslationUnit of the plugin whose turn it is.
TraverseDecl ==
    /\ pc = "idle"
    /\ arg.op = "Unit"
    /\ Len(visited) < Len(arg.plugins) * Len(arg.nodes)
    /\ IF PluginAt(arg.plugins, arg.nodes, Len(visited)) = "ConstantsDumper"
       THEN ConstantsDumperVisit(NodeAt(arg.nodes, Len(visited)))
       ELSE LiteralTypesDumperVisit(NodeAt(arg.nodes, Len(visited)))

NextUnit == TraverseDecl

SpecUnit == InitUnit /\ [][NextUnit]_vars

(***************************************************************************)
(* Parent queries: one GetParent call on one node                          *)
(***************************************************************************)

\* S::m(), a member function.
FuncM == FunctionDecl(TxtM, TxtSM, <<>>, FALSE, TRUE, TRUE, FALSE, FALSE, "none")

\* What a node's ancestors are: a statement, the functions ns::f and S::m, a
\* parameter and a variable.
AncestorDecls == {StmtNode, FuncF, FuncM, VarDecl(TxtP, "parm"), VarDecl(TxtNsX, "global")}

\* The parents context.getParents() gives a node: none, one or two, each with
\* a chain of up to MaxDepth ancestors of its own, itself included.
ParentLists ==
    {<<>>}
    \cup {Nest(chain) : chain \in SeqsUpTo(AncestorDecls, MaxDepth) \ {<<>>}}
    \cup {Nest(first) \o Nest(second) :
            first \in SeqsUpTo(AncestorDecls, MaxDepth) \ {<<>>},
            second \in SeqsUpTo(AncestorDecls, MaxDepth) \ {<<>>}}

\* The calls GetParent<Parent>(context, node, pred) the visitors make.
ParentQueries ==
    {[op |-> "GetParent", node |-> [parents |-> ps], Parent |-> P, pred |-> pr] :
        ps \in ParentLists,
        P \in {"FunctionDecl", "NamedDecl", "VarDecl"},
        pr \in {"any", "not_parameter"}}

InitParent ==
    /\ charSigned = FALSE
    /\ arg \in {q \in ParentQueries : q.pred = "not_parameter" => q.Parent = "VarDecl"}
    /\ os = <<>>
    /\ pc = "start"
    /\ cout = <<>>
    /\ emitted = <<>>
    /\ visited = <<>>
    /\ found = Null

\* found = GetParent<Parent>(context, node, pred)
CallGetParent ==
    /\ pc = "start"
    /\ arg.op = "GetParent"
    /\ found' = GetParent(arg.node, arg.Parent, arg.pred)
    /\ pc' = "done"
    /\ UNCHANGED <<charSigned, arg, os, cout, emitted, visited>>

NextParent == CallGetParent

SpecParent == InitParent /\ [][NextParent]_vars

(***************************************************************************)
(* Claims                                                                  *)
(***************************************************************************)

\* The byte a CharInfo operand holds.
ArgByte == UnsignedChar(arg.ch)

CharDone == pc = "done" /\ arg.op = "CharInfo"

\* C1: a non-printable narrow character (byte < 0x20 or >= 0x7F, bytes 0x80..0xFF
\* in a signed char included) is written as the escape character followed by
\* exactly three octal digits whose value is the byte.
C1_NonPrintableThreeOctalDigits ==
    (CharDone /\ ~isprint(ArgByte)) =>
        /\ Len(os) = 4
        /\ os[1] = escape_char
        /\ IsOctDigits(Tail(os))
        /\ OctValue(Tail(os)) = ArgByte

\* C2: a printable character equal to the delimiter or to the backslash is
\* written as backslash + character; every other printable character is
\* written verbatim as one character.
C2_PrintableEscaping ==
    (CharDone /\ isprint(ArgByte)) =>
        IF ArgByte = arg.delim \/ ArgByte = escape_char
        THEN os = <<escape_char, ArgByte>>
        ELSE os = <<ArgByte>>

C2_Witness ==
    /\ CharDone
    /\ arg.ch = escape_char
    /\ arg.delim = string_delim
    /\ os = <<escape_char, escape_char>>

StructDone == pc = "done" /\ arg.op = "ValueInfo" /\ arg.type.kind = "record"

RECURSIVE FlattenValues(_, _)
\* The encodings of all fields of an aggregate in depth-first order: the bases
\* in declaration order, each flattened the same way, then the own fields.
FlattenValues(value, decl) ==
    Concat([i \in 1..Len(value.bases) |->
               FlattenValues(value.bases[i], getAsCXXRecordDecl(decl.bases[i]))])
    \o [j \in 1..Len(value.fields) |-> ValueInfo(value.fields[j], decl.fields[j].type)]

\* The text between the outer parentheses of an aggregate's encoding.
InnerText == SubSeq(os, Len(arg.type.decl.qname) + 2, Len(os) - 1)

\* C3: the text between the outer parentheses of an aggregate's encoding is the
\* encodings of all its fields in depth-first order joined by single commas.
C3_AggregateFieldsJoinedByCommas ==
    StructDone =>
        os = arg.type.decl.qname \o TxtLParen
             \o Join(FlattenValues(arg.value, arg.type.decl), TxtComma)
             \o TxtRParen

\* Two bases with fields, the first with a base of its own, and two own fields.
C3_Witness ==
    /\ StructDone
    /\ Len(arg.value.bases) = 2
    /\ Len(arg.value.bases[1].bases) = 1
    /\ Len(arg.value.bases[1].bases[1].fields) = 1
    /\ Len(arg.value.bases[1].fields) = 1
    /\ Len(arg.value.bases[2].fields) = 1
    /\ Len(arg.value.fields) = 2
    /\ Len(FlattenValues(arg.value, arg.type.decl)) = 5

RECURSIVE FieldNumbers(_)
\* The numbers held by the fields of an aggregate value, depth-first.
FieldNumbers(value) ==
    Concat([i \in 1..Len(value.bases) |-> FieldNumbers(value.bases[i])])
    \o [j \in 1..Len(value.fields) |-> value.fields[j].int]

RECURSIVE HasEmptyBase(_)
\* Some base, at any depth, has no field anywhere in its own base chain.
HasEmptyBase(decl) ==
    \E i \in 1..Len(decl.bases) :
        \/ ~BaseHasAnyFields(decl.bases[i])
        \/ HasEmptyBase(getAsCXXRecordDecl(decl.bases[i]))

\* C4: a base with no field anywhere in its base chain contributes nothing to
\* the encoding: no character, no comma, no "()"; the text is the fields of the
\* other records separated by exactly one comma each.
C4_EmptyBaseContributesNothing ==
    (StructDone /\ HasEmptyBase(arg.type.decl)) =>
        /\ InnerText = Join([k \in 1..Len(FieldNumbers(arg.value)) |->
                                Decimal(FieldNumbers(arg.value)[k])], TxtComma)
        /\ ~Contains(InnerText, TxtLParen)
        /\ ~Contains(InnerText, TxtComma \o TxtComma)
        /\ (InnerText # <<>> => InnerText[1] # 44 /\ InnerText[Len(InnerText)] # 44)

\* Three bases, the middle one empty, the outer two and the aggregate with fields.
C4_Witness ==
    /\ StructDone
    /\ Len(arg.value.bases) = 3
    /\ BaseHasAnyFields(arg.type.decl.bases[1])
    /\ ~BaseHasAnyFields(arg.type.decl.bases[2])
    /\ BaseHasAnyFields(arg.type.decl.bases[3])
    /\ Len(arg.value.fields) = 1

RECURSIVE FlattenNames(_)
\* The field names of a record in depth-first order: bases first, then own fields.
FlattenNames(decl) ==
    Concat([i \in 1..Len(decl.bases) |-> FlattenNames(getAsCXXRecordDecl(decl.bases[i]))])
    \o [j \in 1..Len(decl.fields) |-> decl.fields[j].name]

RecordDone == pc = "done" /\ arg.op = "RecordInfo"

\* C5: RecordInfo with last = true writes the field names collected depth-first
\* (bases without fields contribute nothing) joined by single commas, with no
\* trailing comma.
C5_ShapeNamesJoinedByCommas ==
    (RecordDone /\ arg.last) => os = Join(FlattenNames(arg.decl), TxtComma)

\* A record without own fields whose last base is empty and whose first base has fields.
C5_Witness ==
    /\ RecordDone
    /\ arg.last
    /\ arg.decl.fields = <<>>
    /\ Len(arg.decl.bases) = 2
    /\ Len(arg.decl.bases[1].decl.fields) = 2
    /\ ~BaseHasAnyFields(arg.decl.bases[2])
    /\ os # <<>>

\* The operand is a char array (char, signed char or unsigned char, no typedef)
\* whose last initialized element is 0.
NulTerminatedCharArray ==
    /\ arg.op = "ValueInfo"
    /\ arg.type.kind = "array"
    /\ isCharType(arg.type.elem)
    /\ arg.type.elem.canonical = arg.type.elem.spelled
    /\ arg.value.elts # <<>>
    /\ arg.value.elts[Len(arg.value.elts)].int = 0

\* C6: a narrow-character array whose last initialized element is 0 is written
\* as a quoted string of the elements before the terminator, in order: one
\* character fewer than the number of initialized elements.
C6_TerminatorTrimmed ==
    (pc = "done" /\ NulTerminatedCharArray) =>
        os = <<string_delim>>
             \o Concat([i \in 1..(Len(arg.value.elts) - 1) |->
                    CharInfo(StaticCastChar(arg.value.elts[i].int), string_delim)])
             \o <<string_delim>>

\* The visited node that produced entry e.
NodeOf(e) == visited[e.node]

RECURSIVE AncestorChain(_)
\* The enclosing declarations and statements of a node with one parent per
\* node, nearest first.
AncestorChain(parents) ==
    IF parents = <<>> THEN <<>>
    ELSE <<parents[1].decl>> \o AncestorChain(parents[1].parents)

\* The nearest ancestor whose class is in classes; Null when there is none.
Nearest(chain, classes) ==
    IF \E i \in 1..Len(chain) : chain[i].cls \in classes
    THEN chain[CHOOSE i \in 1..Len(chain) :
                   /\ chain[i].cls \in classes
                   /\ \A j \in 1..(i - 1) : chain[j].cls \notin classes]
    ELSE Null

NamedClasses == {"Namespace", "CXXRecord", "Function", "Var"}

\* qualifiedName(paramType1, paramType2[, ...])[ const][ volatile][ &| &&]
SignatureText(f) ==
    f.qname \o TxtLParen
    \o Join(f.params \o (IF f.variadic THEN <<TxtEllipsis>> ELSE <<>>), TxtCommaSpace)
    \o TxtRParen
    \o (IF f.const THEN TxtConst ELSE <<>>)
    \o (IF f.volatile THEN TxtVolatile ELSE <<>>)
    \o (IF f.ref = "lvalue" THEN TxtLRef ELSE IF f.ref = "rvalue" THEN TxtRRef ELSE <<>>)

\* C7: no two entries of the stream of one translation unit carry the same
\* qualified name.
C7_NamesUniqueInStream ==
    \A i, j \in 1..Len(emitted) : i # j => emitted[i].name # emitted[j].name

\* C8: a literal inside a function body is named by the qualified function
\* name, "(", the parameter types joined by ", " with "..." last for a variadic
\* function, ")", the qualifiers " const", " volatile", " &" / " &&" of a member
\* function, and "::(literal)".
C8_FunctionSignatureName ==
    \A k \in 1..Len(emitted) :
        LET literal == NodeOf(emitted[k])
            owner == Nearest(AncestorChain(literal.parents), {"Function"})
        IN (literal.kind = "StringLiteral" /\ owner # Null) =>
               emitted[k].name = SignatureText(owner) \o TxtLiteralSuffix

\* A literal in `S::m(int, const char *, ...) const volatile &&`.
C8_Witness ==
    /\ Len(emitted) = 1
    /\ NodeOf(emitted[1]).kind = "StringLiteral"
    /\ LET owner == Nearest(AncestorChain(NodeOf(emitted[1]).parents), {"Function"})
       IN /\ owner # Null
          /\ owner.params = <<TxtInt, TxtConstCharPtr>>
          /\ owner.variadic /\ owner.const /\ owner.volatile /\ owner.ref = "rvalue"

\* C9: the name of a literal comes from the nearest enclosing function if there
\* is one; otherwise from the nearest enclosing named declaration, whose
\* qualified name is followed by "::(literal)"; otherwise it is "::(literal)".
C9_NamerPrecedence ==
    \A k \in 1..Len(emitted) :
        LET literal == NodeOf(emitted[k])
            chain == AncestorChain(literal.parents)
            owning_func == Nearest(chain, {"Function"})
            owning_decl == Nearest(chain, NamedClasses)
        IN literal.kind = "StringLiteral" =>
               IF owning_func # Null
               THEN /\ Len(emitted[k].name) > Len(owning_func.qname)
                    /\ SubSeq(emitted[k].name, 1, Len(owning_func.qname) + 1)
                           = owning_func.qname \o TxtLParen
               ELSE IF owning_decl # Null
               THEN emitted[k].name = owning_decl.qname \o TxtLiteralSuffix
               ELSE emitted[k].name = TxtLiteralSuffix

\* A literal in a local class of a function: the class is the nearer named
\* declaration, the function names the literal.
C9_Witness ==
    /\ Len(emitted) = 1
    /\ NodeOf(emitted[1]).kind = "StringLiteral"
    /\ LET chain == AncestorChain(NodeOf(emitted[1]).parents)
       IN /\ Nearest(chain, NamedClasses) # Null
          /\ Nearest(chain, NamedClasses).cls = "CXXRecord"
          /\ Nearest(chain, {"Function"}) # Null

\* C10: an enum block is n+2 lines: "enum <qualifiedName> {", one line
\* "<enumeratorQualifiedName>:=<value encoded in the underlying type>," per
\* enumerator in declaration order, and "}".
C10_EnumBlockLines ==
    \A k \in 1..Len(emitted) :
        LET decl == NodeOf(emitted[k])
            n == Len(decl.enumerators)
            first == emitted[k].first
        IN decl.kind = "EnumDecl" =>
               /\ emitted[k].count = n + 2
               /\ Len(cout) >= first + n + 1
               /\ cout[first] = TxtEnum \o decl.qname \o TxtOpenBrace
               /\ \A i \in 1..n :
                      cout[first + i] =
                          decl.enumerators[i].qname \o <<58, 61>>
                          \o ValueInfo(IntValue(decl.enumerators[i].initVal), decl.integerType)
                          \o TxtComma
               /\ cout[first + n + 1] = TxtCloseBrace

\* The block of an enum with three enumerators.
C10_Witness ==
    /\ Len(emitted) = 1
    /\ NodeOf(emitted[1]).kind = "EnumDecl"
    /\ Len(NodeOf(emitted[1]).enumerators) = 3
    /\ Len(cout) = 5

\* The value and the type a value line encodes.
EntityValue(node) ==
    IF node.kind = "VarDecl" THEN node.evaluatedValue ELSE node.value

EntityType(node) ==
    IF node.kind = "VarDecl" THEN node.type
    ELSE IF node.kind = "FunctionDecl" THEN node.resultType
    ELSE node.type

ValueLineKinds == {"VarDecl", "FunctionDecl", "StringLiteral"}

\* C11 as stated: every Scalar, ZeroArgConstFunction and MagicLiteral entity is
\* one line made of the qualified name, the separator and the encoded value,
\* with nothing before the name and nothing after the value.
C11_ValueLineIsNameSepValue ==
    \A k \in 1..Len(emitted) :
        NodeOf(emitted[k]).kind \in ValueLineKinds =>
            /\ emitted[k].count = 1
            /\ cout[emitted[k].first] =
                   emitted[k].name \o <<58, 61>>
                   \o ValueInfo(EntityValue(NodeOf(emitted[k])), EntityType(NodeOf(emitted[k])))

\* C11 amended: a Scalar or ZeroArgConstFunction entity is one line
\* <name>:=<value>; a MagicLiteral entity is one line "#literal <name>:=<value>".
C11_ValueLineWithLiteralTag ==
    \A k \in 1..Len(emitted) :
        NodeOf(emitted[k]).kind \in ValueLineKinds =>
            /\ emitted[k].count = 1
            /\ cout[emitted[k].first] =
                   (IF NodeOf(emitted[k]).kind = "StringLiteral"
                    THEN <<35, 108, 105, 116, 101, 114, 97, 108, 32>> ELSE <<>>)
                   \o emitted[k].name \o <<58, 61>>
                   \o ValueInfo(EntityValue(NodeOf(emitted[k])), EntityType(NodeOf(emitted[k])))

\* `constexpr int x = 100;` at global scope has produced the line x:=100.
C11_Witness ==
    /\ Len(emitted) = 1
    /\ NodeOf(emitted[1]).kind = "VarDecl"
    /\ cout = <<(<<120, 58, 61, 49, 48, 48>>)>>

\* The visited node number i has produced an entry.
HasEntry(i) == \E k \in 1..Len(emitted) : emitted[k].node = i

\* C12: a variable produces a Scalar line if and only if its type is a literal
\* type, it is not a function parameter, it has an initializer, it is constexpr
\* or usable in constant expressions, and an evaluated value is available.
C12_ScalarIffConditions ==
    \A i \in 1..Len(visited) :
        visited[i].kind = "VarDecl" =>
            (HasEntry(i) <=>
                /\ visited[i].type.kind # "nonliteral"
                /\ ~(visited[i].isLocalVarDeclOrParm /\ ~visited[i].isLocalVarDecl)
                /\ visited[i].hasInit
                /\ (visited[i].isConstexpr \/ visited[i].isUsableInConstantExpressions)
                /\ visited[i].evaluatedValue # [kind |-> "null"])

\* The variable is reported as Scalar (the conditions of C12).
ReportedAsScalar(v) ==
    /\ v.type.kind # "nonliteral"
    /\ ~(v.isLocalVarDeclOrParm /\ ~v.isLocalVarDecl)
    /\ v.hasInit
    /\ (v.isConstexpr \/ v.isUsableInConstantExpressions)
    /\ v.evaluatedValue # [kind |-> "null"]

\* The variable declarations among the ancestors of a literal.
EnclosingVars(literal) ==
    {d \in {AncestorChain(literal.parents)[j] :
                j \in 1..Len(AncestorChain(literal.parents))} : d.cls = "Var"}

\* The literal's text is the name of its enclosing function.
SpellsFunctionName(literal) ==
    /\ Nearest(AncestorChain(literal.parents), {"Function"}) # Null
    /\ literal.string = Nearest(AncestorChain(literal.parents), {"Function"}).name

\* C13 as stated: a string literal is emitted as a MagicLiteral if and only if
\* it is not in a system header, it does not initialize a variable that is
\* itself reported as Scalar, its text equals neither the enclosing function's
\* name nor the presumed file name, and it evaluates as a constant.
C13_LiteralIffNotBoundToScalar ==
    \A i \in 1..Len(visited) :
        visited[i].kind = "StringLiteral" =>
            (HasEntry(i) <=>
                /\ ~visited[i].isInSystemHeader
                /\ ~\E v \in EnclosingVars(visited[i]) : ReportedAsScalar(v)
                /\ ~SpellsFunctionName(visited[i])
                /\ visited[i].string # visited[i].presumedFilename
                /\ visited[i].evaluates)

\* C13 amended: a string literal is emitted if and only if it is not in a
\* system header, no variable other than a function parameter encloses it
\* (reported as Scalar or not), it is not an unprefixed literal whose text is
\* the enclosing function's name or the presumed file name, and it evaluates
\* as a constant.
C13_LiteralIffNotBoundToVariable ==
    \A i \in 1..Len(visited) :
        visited[i].kind = "StringLiteral" =>
            (HasEntry(i) <=>
                /\ ~visited[i].isInSystemHeader
                /\ ~\E v \in EnclosingVars(visited[i]) :
                        ~(v.isLocalVarDeclOrParm /\ ~v.isLocalVarDecl)
                /\ ~(visited[i].isAscii /\ SpellsFunctionName(visited[i]))
                /\ ~(visited[i].isAscii /\ visited[i].string = visited[i].presumedFilename)
                /\ visited[i].evaluates)

\* A literal that initializes a local variable which is no constant has been
\* visited and nothing was emitted for it.
C13_Witness ==
    /\ Len(visited) = 1
    /\ visited[1].kind = "StringLiteral"
    /\ emitted = <<>>
    /\ ~visited[1].isInSystemHeader /\ visited[1].evaluates
    /\ EnclosingVars(visited[1]) # {}
    /\ \A v \in EnclosingVars(visited[1]) : v.isLocalVarDecl /\ ~ReportedAsScalar(v)

\* C14: a character literal that is outside system headers and not bound to a
\* variable produces a MagicLiteral entry whose name ends in "::(literal)".
C14_CharacterLiteralEmitted ==
    \A i \in 1..Len(visited) :
        (/\ visited[i].kind = "CharacterLiteral"
         /\ ~visited[i].isInSystemHeader
         /\ EnclosingVars(visited[i]) = {}) =>
            \E k \in 1..Len(emitted) :
                /\ emitted[k].node = i
                /\ Len(emitted[k].name) >= 11
                /\ SubSeq(emitted[k].name, Len(emitted[k].name) - 10, Len(emitted[k].name))
                       = <<58, 58, 40, 108, 105, 116, 101, 114, 97, 108, 41>>

\* C15: a function produces a ZeroArgConstFunction line if and only if it is a
\* free function that has a body, is not templated, is constexpr, takes zero
\* parameters, has a non-void return type, and the synthetic zero-argument call
\* evaluates as a constant.
C15_FunctionIffConditions ==
    \A i \in 1..Len(visited) :
        visited[i].kind = "FunctionDecl" =>
            (HasEntry(i) <=>
                /\ visited[i].member = "free"
                /\ visited[i].hasBody
                /\ ~visited[i].isTemplated
                /\ visited[i].isConstexpr
                /\ visited[i].numParams = 0
                /\ visited[i].resultType.kind # "void"
                /\ visited[i].evaluates)

\* C16: a record type produces an AggregateShape line if and only if it is
\* named, has a full definition, is not a lambda, is a literal type, has at
\* least one field itself or through its bases, and is no template definition.
C16_ShapeIffConditions ==
    \A i \in 1..Len(visited) :
        visited[i].kind = "CXXRecordDecl" =>
            (HasEntry(i) <=>
                /\ visited[i].name # <<>>
                /\ visited[i].hasDefinition
                /\ ~visited[i].isLambda
                /\ visited[i].isLiteral
                /\ FlattenNames(visited[i]) # <<>>
                /\ ~visited[i].isTemplated)

\* The entries the visited node number i has produced.
EntriesOf(i) == {k \in 1..Len(emitted) : emitted[k].node = i}

\* C17 as stated: every enum declaration visited produces exactly one enum
\* block, templated or not.
C17_EveryEnumOneBlock ==
    \A i \in 1..Len(visited) :
        visited[i].kind = "EnumDecl" => Cardinality(EntriesOf(i)) = 1

\* C17 amended: an enum declaration that is not templated produces exactly one
\* enum block; a templated enum declaration produces nothing.
C17_NonTemplatedEnumOneBlock ==
    \A i \in 1..Len(visited) :
        visited[i].kind = "EnumDecl" =>
            IF visited[i].isTemplated
            THEN EntriesOf(i) = {} /\ (Len(visited) = 1 => cout = <<>>)
            ELSE /\ Cardinality(EntriesOf(i)) = 1
                 /\ \A k \in EntriesOf(i) :
                        /\ emitted[k].name = visited[i].qname
                        /\ emitted[k].count = Len(visited[i].enumerators) + 2

\* A templated enum with an enumerator has been visited and nothing was written.
C17_Witness ==
    /\ Len(visited) = 1
    /\ visited[1].kind = "EnumDecl"
    /\ visited[1].isTemplated
    /\ visited[1].enumerators # <<>>
    /\ cout = <<>>

\* C18: processing one node never aborts the pass: every visitor returns
\* normally, having appended one complete entry or nothing, also when a
\* character pointer's rendering holds no double quote.
C18_VisitorsReturnNormally ==
    /\ pc # "terminated"
    /\ \A l \in 1..Len(cout) :
           \E k \in 1..Len(emitted) :
               emitted[k].first <= l /\ l < emitted[k].first + emitted[k].count

\* C19: the separator never occurs inside an encoded value.
C19_NoSeparatorInValue ==
    (pc = "done" /\ arg.op = "ValueInfo") => ~Contains(os, <<58, 61>>)

RECURSIVE Decode(_, _)
\* Reading an encoded narrow string back: backslash + 3 octal digits is that
\* byte, backslash + delimiter or backslash is that character, any other
\* character is itself; -1 marks text that follows none of the rules.
Decode(text, delim) ==
    IF text = <<>> THEN <<>>
    ELSE IF text[1] # 92 THEN <<text[1]>> \o Decode(Tail(text), delim)
    ELSE IF Len(text) >= 4 /\ IsOctDigits(SubSeq(text, 2, 4))
    THEN <<OctValue(SubSeq(text, 2, 4))>> \o Decode(SubSeq(text, 5, Len(text)), delim)
    ELSE IF Len(text) >= 2 /\ text[2] \in {delim, 92}
    THEN <<text[2]>> \o Decode(SubSeq(text, 3, Len(text)), delim)
    ELSE <<0 - 1>>

\* The operand is a narrow-character array rendered as a quoted string.
NarrowStringOperand ==
    /\ arg.op = "ValueInfo"
    /\ arg.type.kind = "array"
    /\ arg.type.elem.kind = "builtin" /\ arg.type.elem.cls = "char"
    /\ arg.type.elem.canonical = arg.type.elem.spelled

\* C20: reading the encoded text of a narrow character or narrow-character
\* array back under the escaping rules yields the original bytes (so two
\* different byte sequences never share an encoding).
C20_NarrowRoundTrip ==
    /\ (pc = "done" /\ arg.op = "CharInfo") => Decode(os, arg.delim) = <<arg.ch % 256>>
    /\ (pc = "done" /\ NarrowStringOperand) =>
           /\ Len(os) >= 2 /\ os[1] = 34 /\ os[Len(os)] = 34
           /\ Decode(SubSeq(os, 2, Len(os) - 1), 34)
                  = [i \in 1..Len(arg.value.elts) |-> arg.value.elts[i].int % 256]

\* The operand is an array value of a literal type whose elements are no characters.
NonCharacterArray ==
    /\ arg.op = "ValueInfo"
    /\ arg.type.kind = "array"
    /\ arg.value.k = "Array"
    /\ arg.type.elem.kind # "builtin" \/ arg.type.elem.cls \notin {"char", "wide"}
    /\ getBaseElementType(arg.type).kind # "nonliteral"

\* C21: a non-character array is written as "(", the encodings of exactly its
\* initialized elements in index order joined by single commas, ")": nothing
\* for the elements beyond the initialized count, "()" for no initialized
\* element, no trailing comma.
C21_ArrayInitializedElements ==
    (pc = "done" /\ NonCharacterArray) =>
        /\ os = <<40>>
                \o Join([i \in 1..Len(arg.value.elts) |->
                            ValueInfo(arg.value.elts[i], arg.type.elem)], <<44>>)
                \o <<41>>
        /\ (arg.value.elts = <<>> => os = <<40, 41>>)
        /\ os[Len(os) - 1] # 44

\* int a[3] = {-1, 10} has been written as (-1,10).
C21_Witness ==
    /\ pc = "done"
    /\ NonCharacterArray
    /\ arg.value.size = 3
    /\ Len(arg.value.elts) = 2
    /\ os = <<40, 45, 49, 44, 49, 48, 41>>

\* C22: the value encoder writes exactly <non-literal> for a value whose type
\* is no literal type, whatever else the type is; for every value of a literal
\* type it writes a rendering other than <non-literal> and does not fail.
C22_SentinelIffNonLiteral ==
    (pc # "start" /\ arg.op = "ValueInfo") =>
        IF getBaseElementType(arg.type).kind = "nonliteral"
        THEN pc = "done" /\ os = <<60, 110, 111, 110, 45, 108, 105, 116, 101, 114, 97, 108, 62>>
        ELSE pc = "done" /\ os # <<60, 110, 111, 110, 45, 108, 105, 116, 101, 114, 97, 108, 62>>

\* The operand is one character of a wide, 8-, 16- or 32-bit character type.
WideCharacter ==
    arg.op = "ValueInfo" /\ arg.type.kind = "builtin" /\ arg.type.cls = "wide"

\* The operand's type is an array of such characters.
WideCharacterArray ==
    /\ arg.op = "ValueInfo"
    /\ arg.type.kind = "array"
    /\ arg.type.elem.kind = "builtin" /\ arg.type.elem.cls = "wide"

\* <TypeName>(<decimal code point>)
WideText(name, value) == name \o <<40>> \o Decimal(value.int) \o <<41>>

\* <ElementType>[](<TypeName>(<n>),...) for the elements of the operand.
WideArrayText ==
    arg.type.elem.canonical \o <<91, 93, 40>>
    \o Join([i \in 1..Len(arg.value.elts) |->
                WideText(arg.type.elem.canonical, arg.value.elts[i])], <<44>>)
    \o <<41>>

\* C25 as stated: a wide, 8-, 16- or 32-bit character is written as
\* <TypeName>(<decimal code point>), never as a quoted character; an array of
\* them as <ElementType>[] followed by "(", the <TypeName>(<n>) of the elements
\* joined by commas, ")".
C25_WideCharactersAsCodePoints ==
    /\ (pc # "start" /\ WideCharacter) =>
           /\ pc = "done"
           /\ os = WideText(arg.type.canonical, arg.value)
           /\ os[1] \notin {34, 39}
    /\ (pc # "start" /\ WideCharacterArray) =>
           /\ pc = "done"
           /\ arg.value.k = "Array"
           /\ os = WideArrayText

\* C25 amended: a wide, 8-, 16- or 32-bit character is written as
\* <TypeName>(<decimal code point>), never as a quoted character; an array
\* value of them as <ElementType>[](<TypeName>(<n>),...); a string literal of
\* them, whose value refers to the literal, as the quoted text of the host
\* compiler's rendering, without the prefix.
C25_WideArrayValuesAsCodePoints ==
    /\ (pc # "start" /\ WideCharacter) =>
           /\ pc = "done"
           /\ os = WideText(arg.type.canonical, arg.value)
           /\ os[1] \notin {34, 39}
    /\ (pc # "start" /\ WideCharacterArray /\ arg.value.k = "Array") =>
           /\ pc = "done"
           /\ os = WideArrayText
    /\ (pc # "start" /\ WideCharacterArray /\ arg.value.k = "LValue") =>
           /\ pc = "done"
           /\ Len(os) >= 2 /\ os[1] = 34 /\ os[Len(os)] = 34
           /\ \E n \in 1..Len(arg.value.str) :
                  arg.value.str = SubSeq(arg.value.str, 1, n) \o os
                  /\ \A m \in 1..n : arg.value.str[m] # 34

\* wchar_t s[] = {U+000A, U+03BB} has been written as wchar_t[](wchar_t(10),wchar_t(955)).
C25_Witness ==
    /\ pc = "done"
    /\ WideCharacterArray
    /\ arg.value.k = "Array"
    /\ os = <<119, 99, 104, 97, 114, 95, 116, 91, 93, 40,
              119, 99, 104, 97, 114, 95, 116, 40, 49, 48, 41, 44,
              119, 99, 104, 97, 114, 95, 116, 40, 57, 53, 53, 41, 41>>

\* The operand's type, or its element type, is a typedef of a narrow character type.
NarrowTypedef(t) == t.kind = "builtin" /\ t.cls = "char" /\ t.canonical # t.spelled

\* The operand's type is char, signed char or unsigned char itself.
PlainNarrow(t) == t.kind = "builtin" /\ t.cls = "char" /\ t.canonical = t.spelled

\* C26: a narrow character type reached through a typedef (uint8_t) is written
\* as a number, a plain char / signed char / unsigned char as a quoted
\* character; an array whose element type is such a typedef is written as a
\* parenthesised comma-separated list of numbers, not as a quoted string.
C26_TypedefNarrowAsNumber ==
    (pc # "start" /\ arg.op = "ValueInfo") =>
        /\ NarrowTypedef(arg.type) => os = Decimal(arg.value.int)
        /\ PlainNarrow(arg.type) =>
               /\ Len(os) >= 3 /\ os[1] = 39 /\ os[Len(os)] = 39
               /\ os # Decimal(arg.value.int)
        /\ (arg.type.kind = "array" /\ arg.value.k = "Array" /\ NarrowTypedef(arg.type.elem)) =>
               os = <<40>>
                    \o Join([i \in 1..Len(arg.value.elts) |-> Decimal(arg.value.elts[i].int)],
                            <<44>>)
                    \o <<41>>

\* uint8_t a[] = {10, 200} has been written as (10,200).
C26_Witness ==
    /\ pc = "done"
    /\ arg.op = "ValueInfo"
    /\ arg.type.kind = "array"
    /\ NarrowTypedef(arg.type.elem)
    /\ os = <<40, 49, 48, 44, 50, 48, 48, 41>>

\* C28: an encoded value holds no raw line break: no newline and no carriage
\* return character, such bytes appear in octal-escaped form only, so the
\* entry that carries the value is one line.
C28_NoLineBreakInValue ==
    (pc # "start" /\ arg.op = "ValueInfo") =>
        \A i \in 1..Len(os) : os[i] \notin {10, 13}

\* char s[] = {'\n', '\r'} has been written as "\012\015".
C28_Witness ==
    /\ pc = "done"
    /\ arg.op = "ValueInfo"
    /\ arg.type = ArrayType(CharType)
    /\ os = <<34, 92, 48, 49, 50, 92, 48, 49, 53, 34>>

\* One character read by the scan below. s.quote is 0 outside a quoted span,
\* else the delimiter that opened the span; s.skip says that the character
\* follows a backslash; s.depth is the number of "(" open, -1 once a ")" had no
\* "(" to close; s.opened counts the "(" read outside quoted spans.
ParenStep(c, s) ==
    IF s.depth < 0 THEN s
    ELSE IF s.skip THEN [s EXCEPT !.skip = FALSE]
    ELSE IF s.quote # 0
    THEN IF c = 92 THEN [s EXCEPT !.skip = TRUE]
         ELSE IF c = s.quote THEN [s EXCEPT !.quote = 0]
         ELSE s
    ELSE IF c \in {34, 39} THEN [s EXCEPT !.quote = c]
    ELSE IF c = 40 THEN [s EXCEPT !.depth = @ + 1, !.opened = @ + 1]
    ELSE IF c = 41 THEN [s EXCEPT !.depth = @ - 1]
    ELSE s

RECURSIVE ParenRange(_, _, _, _)
\* The scan of text[lo..hi] from state s, the range halved at every level.
ParenRange(text, lo, hi, s) ==
    IF lo > hi THEN s
    ELSE IF lo = hi THEN ParenStep(text[lo], s)
    ELSE LET mid == (lo + hi) \div 2
         IN CHOOSE r \in {ParenRange(text, mid + 1, hi, left) :
                              left \in {ParenRange(text, lo, mid, s)}} : TRUE

\* <<opened, depth>> for the whole text: the number of "(" read outside quoted
\* spans and the number left open, or <<-1, -1>> when a ")" has no "(" to
\* close or the text ends inside a quoted span.
ParenScan(text) ==
    LET s == ParenRange(text, 1, Len(text),
                        [quote |-> 0, skip |-> FALSE, depth |-> 0, opened |-> 0])
    IN IF s.depth < 0 \/ s.quote # 0 THEN <<0 - 1, 0 - 1>> ELSE <<s.opened, s.depth>>

RECURSIVE SumOf(_)
\* The sum of a sequence of numbers.
SumOf(ns) == IF ns = <<>> THEN 0 ELSE Head(ns) + SumOf(Tail(ns))

RECURSIVE Pairs(_, _)
RECURSIVE PairsOfRecord(_, _)
\* The pairs of parentheses the claim gives a record's bases and fields: none
\* for a base itself, those of its fields for every field.
PairsOfRecord(value, decl) ==
    SumOf([i \in 1..Len(value.bases) |-> PairsOfRecord(value.bases[i], decl.bases[i].decl)])
    + SumOf([j \in 1..Len(value.fields) |-> Pairs(value.fields[j], decl.fields[j].type)])

\* The pairs of parentheses the claim gives a value: one for an array that is
\* no narrow string, one for an aggregate, one for a wide character, plus
\* those of the elements and fields.
Pairs(value, type) ==
    IF type.kind = "ref" THEN Pairs(value, type.elem)
    ELSE IF type.kind = "builtin" THEN (IF type.cls = "wide" THEN 1 ELSE 0)
    ELSE IF type.kind = "array" /\ value.k = "Array"
    THEN IF PlainNarrow(type.elem) THEN 0
         ELSE 1 + SumOf([i \in 1..Len(value.elts) |-> Pairs(value.elts[i], type.elem)])
    ELSE IF type.kind = "record" /\ value.k = "Struct"
    THEN 1 + PairsOfRecord(value, type.decl)
    ELSE 0

\* C29: in every encoded value the parentheses outside quoted character and
\* string spans are balanced and properly nested: every "(" opened for an array
\* or an aggregate is closed by its ")", a flattened base adds no parentheses,
\* a field of aggregate type adds exactly one nested pair.
C29_ParenthesesBalanced ==
    (pc = "done" /\ arg.op = "ValueInfo" /\ getBaseElementType(arg.type).kind # "nonliteral") =>
        /\ ParenScan(os)[2] = 0
        /\ ParenScan(os)[1] = Pairs(arg.value, arg.type)

\* struct R1 : R3 { R2 f11; int f12[2]; char f13; } has been written as
\* R1(31,R2(21),(-1,10),'\012'): three pairs, none for the base R3.
C29_Witness ==
    /\ pc = "done"
    /\ arg.op = "ValueInfo"
    /\ arg.type.kind = "record"
    /\ Len(arg.value.bases) = 1
    /\ Len(arg.value.fields) = 3
    /\ ParenScan(os) = <<3, 0>>

RECURSIVE AncestorsAt(_, _)
\* The ancestors reached through the given parents, each with its distance
\* from the node when the parents are at distance d.
AncestorsAt(parents, d) ==
    UNION {{<<d, parents[i].decl>>} \cup AncestorsAt(parents[i].parents, d + 1) :
               i \in 1..Len(parents)}

\* The ancestors of the queried node that are of the requested kind and satisfy pred.
MatchingAncestors ==
    {a \in AncestorsAt(arg.node.parents, 1) :
        IsA(a[2], arg.Parent) /\ Pred(arg.pred, a[2])}

\* C27: GetParent<Parent>(node, pred) returns the nearest enclosing ancestor of
\* the requested kind that satisfies pred: when some ancestor matches, the
\* result is a matching ancestor and no matching ancestor is nearer to the
\* node, also when the node has several direct parents; the result is null
\* only when no ancestor matches.
C27_GetParentNearest ==
    (pc = "done" /\ arg.op = "GetParent") =>
        IF MatchingAncestors = {}
        THEN found = [kind |-> "null"]
        ELSE \E a \in MatchingAncestors :
                 /\ a[2] = found
                 /\ \A b \in MatchingAncestors : a[1] <= b[1]

\* text begins with prefix.
StartsWith(text, prefix) ==
    Len(text) >= Len(prefix) /\ SubSeq(text, 1, Len(prefix)) = prefix

\* C23: an enum block is written atomically: between its "enum <name> {" line
\* and its closing "}" line the stream holds that enum's enumerator lines
\* only, and every opened block is closed before another entry is written.
C23_EnumBlockAtomic ==
    /\ \A k \in 1..Len(emitted) :
           LET decl == NodeOf(emitted[k])
               first == emitted[k].first
               last == emitted[k].first + emitted[k].count - 1
           IN decl.kind = "EnumDecl" =>
                  /\ first < last /\ last <= Len(cout)
                  /\ cout[first] = <<101, 110, 117, 109, 32>> \o decl.qname \o <<32, 123>>
                  /\ cout[last] = <<125>>
                  /\ \A l \in (first + 1)..(last - 1) :
                         /\ StartsWith(cout[l], decl.qname \o <<58, 58>>)
                         /\ cout[l][Len(cout[l])] = 44
                  /\ \A j \in 1..Len(emitted) :
                         j # k => (emitted[j].first < first \/ emitted[j].first > last)
    /\ \A l \in 1..Len(cout) :
           StartsWith(cout[l], <<101, 110, 117, 109, 32>>) =>
               \E k \in 1..Len(emitted) :
                   emitted[k].first = l /\ NodeOf(emitted[k]).kind = "EnumDecl"

\* The block of ns::E with its two enumerators, closed, then the line of a variable.
C23_Witness ==
    /\ Len(emitted) = 2
    /\ NodeOf(emitted[1]).kind = "EnumDecl"
    /\ emitted[1].count = 4
    /\ NodeOf(emitted[2]).kind = "VarDecl"
    /\ emitted[2].first = 5
    /\ Len(cout) = 5

\* The position in the translation unit of the node that produced entry e, and
\* the number of the traversal that visited it.
UnitPosition(e) == CHOOSE i \in 1..Len(arg.nodes) : arg.nodes[i] = visited[e.node]
Traversal(e) == ((e.node - 1) \div Len(arg.nodes)) + 1

\* C24 as stated: the entries of all kinds (value lines, enum blocks, shape
\* lines) stand in one stream in the depth-first order of the declarations
\* that produced them: the entry of an earlier declaration precedes that of a
\* later one, a declaration's own entry precedes those of the nodes nested in it.
C24_OneStreamInTraversalOrder ==
    \A j, k \in 1..Len(emitted) :
        /\ UnitPosition(emitted[j]) < UnitPosition(emitted[k])
               => emitted[j].first < emitted[k].first
        /\ arg.inside[UnitPosition(emitted[k])] = UnitPosition(emitted[j])
               => emitted[j].first < emitted[k].first

\* C24 amended: the entries one traversal writes (value lines and enum blocks
\* by ConstantsDumper, shape lines by TypesDumper) stand in the depth-first
\* order of their declarations, a declaration's entry before those of the
\* nodes nested in it; the entries of the other traversal form a run of their
\* own, before or after.
C24_EachTraversalInOrder ==
    \A j, k \in 1..Len(emitted) :
        /\ (Traversal(emitted[j]) = Traversal(emitted[k])
            /\ UnitPosition(emitted[j]) < UnitPosition(emitted[k]))
               => emitted[j].first + emitted[j].count <= emitted[k].first
        /\ (Traversal(emitted[j]) = Traversal(emitted[k])
            /\ arg.inside[UnitPosition(emitted[k])] = UnitPosition(emitted[j]))
               => emitted[j].first + emitted[j].count <= emitted[k].first
        /\ Traversal(emitted[j]) < Traversal(emitted[k])
               => emitted[j].first + emitted[j].count <= emitted[k].first
        /\ (NodeOf(emitted[j]).kind = "CXXRecordDecl")
               = (arg.plugins[Traversal(emitted[j])] = "TypesDumper")

\* Both plugins have run over `constexpr int x = 100; struct R1 { int f11; };`,
\* TypesDumper first: the shape line of R1 stands before the line of x.
C24_Witness ==
    /\ arg.op = "Unit"
    /\ arg.plugins = <<"TypesDumper", "ConstantsDumper">>
    /\ Len(arg.nodes) = 2
    /\ Len(visited) = 4
    /\ Len(emitted) = 2
    /\ NodeOf(emitted[1]).kind = "CXXRecordDecl" /\ UnitPosition(emitted[1]) = 2
    /\ NodeOf(emitted[2]).kind = "VarDecl" /\ UnitPosition(emitted[2]) = 1

RECURSIVE Segments(_)
\* The comma-separated segments of a text.
Segments(text) ==
    IF find(text, 44) = 0 THEN <<text>>
    ELSE <<SubSeq(text, 1, find(text, 44) - 1)>>
         \o Segments(SubSeq(text, find(text, 44) + 1, Len(text)))

\* The text between the braces of the shape line of entry e.
ShapeText(e) ==
    SubSeq(cout[e.first], Len(e.name) + 2, Len(cout[e.first]) - 1)

\* C30: every comma-separated segment of a shape line <name>{...} is a
\* non-empty field name and there are as many segments as the flattened type
\* has fields, also for records with unnamed members; a record with no field
\* at all gives no {} entry.
C30_ShapeSegmentsAreFieldNames ==
    \A i \in 1..Len(visited) :
        visited[i].kind = "CXXRecordDecl" =>
            /\ FlattenNames(visited[i]) = <<>> => EntriesOf(i) = {}
            /\ \A k \in EntriesOf(i) :
                   /\ Len(Segments(ShapeText(emitted[k]))) = Len(FlattenNames(visited[i]))
                   /\ \A n \in 1..Len(Segments(ShapeText(emitted[k]))) :
                          Segments(ShapeText(emitted[k]))[n] # <<>>

====
